---- MODULE Spec2Model ----
(***************************************************************************)
(* op-loader: the interactive navigation state machine (src/src/event.rs,  *)
(* src/src/app.rs, src/src/main.rs) over the 1Password CLI ("op").         *)
(*                                                                         *)
(* The program state is the App struct; the model keeps it in one record   *)
(* variable, app, whose fields carry the names of the struct's fields.     *)
(* Every method of App and every ListNav handler is an operator from an    *)
(* App value to the App value the method leaves behind, so that a handler  *)
(* is the composition of the calls it makes, in the order of the source.   *)
(*                                                                         *)
(* Option<usize> is an integer with None = -1; indices are 0-based as in   *)
(* the source, Get(s, i) reads element i of a Vec.  A String is a sequence *)
(* of one-character strings.  Option<String> is a string with "" = None.   *)
(*                                                                         *)
(* The command line side (src/src/cli.rs, src/src/cache.rs) works on what  *)
(* is on disk: the variable disk holds the clock, the cache directory, the *)
(* stored configuration, the templates directory and the target files.  A  *)
(* file is a record of its content and its modification time.  A cache     *)
(* file is a sequence of lines, a line a sequence of tokens; a template or *)
(* a target file is a text, a sequence of tokens in which the line feed is *)
(* a token of its own.  The last variable, last, records the operation     *)
(* that led to the present state.                                          *)
(***************************************************************************)
EXTENDS Integers, Sequences, FiniteSets, TLC

VARIABLES app, last, disk

vars == <<app, last, disk>>

(***************************************************************************)
(* Bounds of the model.                                                    *)
(***************************************************************************)
\* longest search query the model types
MaxQuery == 1
\* longest name the model types into the EnvVar modal
MaxNameLen == 1
\* most bindings the model keeps in config.inject_vars
MaxVars == 2

None == -1

Get(s, i) == s[i + 1]

InRange(s, i) == i >= 0 /\ i < Len(s)

Last(s) == s[Len(s)]

Pop(s) == IF Len(s) = 0 THEN s ELSE SubSeq(s, 1, Len(s) - 1)

Min2(x, y) == IF x < y THEN x ELSE y

(***************************************************************************)
(* Characters.  The keyboard of the model: every character the handlers    *)
(* tell apart, one plain letter and characters that are no identifier      *)
(* characters.                                                             *)
(***************************************************************************)
Chars == {"q", "k", "j", "f", "v", "0", "1", "2", "3", "/", " ", "c", "d", "y", "n", "g"}

SpecialCodes == {"Up", "Down", "Enter", "Esc", "Backspace", "Tab"}

Keys == [code : SpecialCodes, ch : {""}] \cup [code : {"Char"}, ch : Chars]

KeyOf(code) == [code |-> code, ch |-> ""]

CharKey(c) == [code |-> "Char", ch |-> c]

is_ascii_alphanumeric(c) == c \in {"q", "k", "j", "f", "v", "c", "d", "y", "n", "g", "0", "1", "2", "3",
                                   "Q", "K", "J", "F", "V", "C", "D", "Y", "N", "G",
                                   "m", "a", "r", "M", "A", "R"}

to_ascii_uppercase(c) ==
    CASE c = "q" -> "Q" [] c = "k" -> "K" [] c = "j" -> "J" [] c = "f" -> "F"
      [] c = "v" -> "V" [] c = "c" -> "C" [] c = "d" -> "D" [] c = "y" -> "Y"
      [] c = "n" -> "N" [] c = "g" -> "G" [] c = "m" -> "M" [] c = "a" -> "A"
      [] c = "r" -> "R" [] OTHER -> c

to_ascii_lowercase(c) ==
    CASE c = "Q" -> "q" [] c = "K" -> "k" [] c = "J" -> "j" [] c = "F" -> "f"
      [] c = "V" -> "v" [] c = "C" -> "c" [] c = "D" -> "d" [] c = "Y" -> "y"
      [] c = "N" -> "n" [] c = "G" -> "g" [] c = "M" -> "m" [] c = "A" -> "a"
      [] c = "R" -> "r" [] OTHER -> c

\* byte order of the characters, for Vec<String>::sort
CharOrder == <<" ", "-", "/", "0", "1", "2", "3",
               "A", "C", "D", "F", "G", "J", "K", "M", "N", "Q", "R", "V", "Y", "_",
               "a", "c", "d", "f", "g", "j", "k", "m", "n", "q", "r", "v", "y">>

CharRank(c) == CHOOSE i \in 1..Len(CharOrder) : CharOrder[i] = c

RECURSIVE StrLess(_, _)
StrLess(s, t) ==
    IF Len(t) = 0 THEN FALSE
    ELSE IF Len(s) = 0 THEN TRUE
    ELSE IF CharRank(Head(s)) < CharRank(Head(t)) THEN TRUE
    ELSE IF CharRank(Head(s)) > CharRank(Head(t)) THEN FALSE
    ELSE StrLess(Tail(s), Tail(t))

RECURSIVE SortedSeq(_)
SortedSeq(S) ==
    IF S = {} THEN <<>>
    ELSE LET m == CHOOSE x \in S : \A y \in S \ {x} : StrLess(x, y)
         IN  <<m>> \o SortedSeq(S \ {m})

(***************************************************************************)
(* The Secret Source: what `op` answers.  Ids are unique across accounts   *)
(* and vaults.  A call ends in one of four outcomes.                       *)
(***************************************************************************)
WorldAccounts == <<[account_uuid |-> "a1"], [account_uuid |-> "a2"]>>

AccountIds == {"a1", "a2"}

\* `op vault list` without --account answers for the CLI's own default account
WorldVaults(account_id) ==
    CASE account_id = "a2" -> <<[id |-> "v3"]>>
      [] OTHER -> <<[id |-> "v1"], [id |-> "v2"]>>

WorldItems(vault_id) ==
    CASE vault_id = "v1" -> <<[id |-> "i1", title |-> <<"G", "j">>], [id |-> "i2", title |-> <<"j">>]>>
      [] vault_id = "v2" -> <<[id |-> "i3", title |-> <<"q", "g">>]>>
      [] OTHER -> <<>>

WorldFields(item_id) ==
    CASE item_id = "i1" -> <<[label |-> "password", reference |-> "r1"],
                             [label |-> "notesPlain", reference |-> "r2"]>>
      [] item_id = "i2" -> <<[label |-> "notesPlain", reference |-> "r3"]>>
      [] OTHER -> <<[label |-> "username", reference |-> "r4"],
                    [label |-> "password", reference |-> "r5"]>>

Outcomes == {"ok", "nonzero", "spawn", "badjson"}

\* the outcomes the navigation specification draws: it tells a failed call from
\* a successful one, not the kinds of failure
NavOutcomes == {"ok", "nonzero"}

NoDetails == [some |-> FALSE, id |-> "", fields |-> <<>>]

NoModal == [kind |-> "None", env_var_name |-> <<>>, field_reference |-> "", vars |-> <<>>]

NoConfig == [inject_vars |-> {}, default_account_id |-> "",
             default_vault_per_account |-> [x \in AccountIds |-> ""]]

(***************************************************************************)
(* App (src/src/app.rs).  vaults_for, items_for and details_for are        *)
(* history fields: the arguments of the `op` call whose answer the list    *)
(* holds, empty when the list was cleared.  command_log holds the entries  *)
(* appended while the latest key event was handled (the handler starts     *)
(* from an empty view of the log), and copied the names that event wrote   *)
(* to the clipboard.                                                       *)
(* panicked records an Option::unwrap() on None, which aborts the process. *)
(***************************************************************************)
App_new ==
    [ config |-> NoConfig,
      should_quit |-> FALSE,
      focused_panel |-> "VaultList",
      error_message |-> "",
      command_log |-> <<>>,
      accounts |-> <<>>,
      account_list_state |-> None,
      selected_account_idx |-> None,
      vaults |-> <<>>,
      vault_list_state |-> None,
      selected_vault_idx |-> None,
      vault_items |-> <<>>,
      vault_item_list_state |-> None,
      selected_vault_item_idx |-> None,
      selected_item_details |-> NoDetails,
      item_detail_list_state |-> None,
      selected_field_idx |-> None,
      search_query |-> <<>>,
      search_active |-> FALSE,
      filtered_item_indices |-> <<>>,
      modal |-> NoModal,
      managed_vars |-> <<>>,
      managed_vars_list_state |-> None,
      managed_vars_selected |-> {},
      copied |-> <<>>,
      vaults_for |-> "",
      items_for |-> <<"", "">>,
      details_for |-> <<"", "", "">>,
      panicked |-> FALSE ]

MAX_ENTRIES == 50

trim_drops_newest(entries) ==
    IF Len(entries) > MAX_ENTRIES THEN SubSeq(entries, 1, MAX_ENTRIES) ELSE entries

trim(entries) ==
    IF Len(entries) > MAX_ENTRIES
    THEN SubSeq(entries, Len(entries) - MAX_ENTRIES + 1, Len(entries))
    ELSE entries

log_success(a, command, item_count) ==
    [a EXCEPT !.command_log =
        trim(Append(@, [command |-> command, success |-> TRUE, item_count |-> item_count]))]

log_failure(a, command) ==
    [a EXCEPT !.command_log =
        trim(Append(@, [command |-> command, success |-> FALSE, item_count |-> None]))]

Ok(a) == [app |-> a, ok |-> TRUE, err |-> ""]

Err(a, msg) == [app |-> a, ok |-> FALSE, err |-> msg]

\* Command::output() failing returns the error unlogged; a non-zero exit is logged
run_op_command(a, cmd, outcome) ==
    IF outcome = "spawn" THEN Err(a, "Failed to execute op command")
    ELSE IF outcome = "nonzero" THEN Err(log_failure(a, cmd), "op failed")
    ELSE Ok(a)

selected_vault(a) ==
    IF a.selected_vault_idx /= None /\ InRange(a.vaults, a.selected_vault_idx)
    THEN Get(a.vaults, a.selected_vault_idx).id ELSE ""

selected_account(a) ==
    IF a.selected_account_idx /= None /\ InRange(a.accounts, a.selected_account_idx)
    THEN Get(a.accounts, a.selected_account_idx).account_uuid ELSE ""

load_accounts(a, accounts, outcome) ==
    LET parsed(b) == [b EXCEPT !.accounts = accounts,
                               !.account_list_state = IF accounts /= <<>> THEN 0 ELSE @]
        answered(r) ==
            IF ~r.ok THEN r
            ELSE IF outcome = "badjson" THEN Err(r.app, "Failed to parse account list JSON")
            ELSE Ok(parsed(log_success(r.app, "op account list", Len(accounts))))
    IN  answered(run_op_command(a, "op account list", outcome))

load_vaults(a, outcome) ==
    LET parsed(b, account_uuid, vaults) ==
            [b EXCEPT !.vaults = vaults,
                      !.vaults_for = account_uuid,
                      !.selected_vault_idx = None,
                      !.vault_list_state = IF vaults /= <<>> THEN 0 ELSE None]
        answered(r, account_uuid, vaults) ==
            IF ~r.ok THEN r
            ELSE IF outcome = "badjson" THEN Err(r.app, "Failed to parse vault list JSON")
            ELSE Ok(parsed(log_success(r.app, "op vault list", Len(vaults)),
                           account_uuid, vaults))
        asked(account_uuid) ==
            answered(run_op_command(a, "op vault list", outcome),
                     account_uuid, WorldVaults(account_uuid))
    IN  asked(selected_account(a))

(***************************************************************************)
(* The fuzzy matcher (SkimMatcherV2::fuzzy_match, a library): a title      *)
(* matches a pattern when the pattern is a subsequence of it, ignoring     *)
(* case unless the pattern holds an upper-case letter.  The score rewards  *)
(* matched characters, adjacent matches and a match at the start.          *)
(***************************************************************************)
HasUpper(p) == \E i \in 1..Len(p) : to_ascii_lowercase(p[i]) /= p[i]

CharEq(tc, pc, ignore_case) ==
    IF ignore_case THEN to_ascii_lowercase(tc) = to_ascii_lowercase(pc) ELSE tc = pc

\* leftmost positions of the pattern in the title from position `from`; <<0>> when none
RECURSIVE MatchFrom(_, _, _, _)
MatchFrom(title, pattern, from, ignore_case) ==
    IF Len(pattern) = 0 THEN <<>>
    ELSE IF from > Len(title) THEN <<0>>
    ELSE IF CharEq(title[from], Head(pattern), ignore_case)
         THEN LET rest == MatchFrom(title, Tail(pattern), from + 1, ignore_case)
              IN  IF rest = <<0>> THEN <<0>> ELSE <<from>> \o rest
         ELSE MatchFrom(title, pattern, from + 1, ignore_case)

fuzzy_match(title, pattern) ==
    LET adjacent(pos) == Cardinality({i \in 1..(Len(pos) - 1) : pos[i + 1] = pos[i] + 1})
        result(pos) ==
            IF pos = <<0>> THEN [matched |-> FALSE, score |-> 0]
            ELSE [matched |-> TRUE,
                  score |-> 16 * Len(pos) + 8 * adjacent(pos)
                            + (IF Len(pos) > 0 /\ pos[1] = 1 THEN 8 ELSE 0)
                            - (IF Len(pos) > 0 THEN pos[1] - 1 ELSE 0)]
    IN  result(MatchFrom(title, pattern, 1, ~HasUpper(pattern)))

\* Vec::sort_by(|a, b| b.1.cmp(&a.1)) is stable: equal scores keep their order
\* as InsertByScore, but an entry goes before the entries of equal score
RECURSIVE InsertByScore_before_equal(_, _)
InsertByScore_before_equal(sorted, x) ==
    IF sorted = <<>> THEN <<x>>
    ELSE IF Head(sorted).score > x.score
         THEN <<Head(sorted)>> \o InsertByScore_before_equal(Tail(sorted), x)
         ELSE <<x>> \o sorted

RECURSIVE InsertByScore(_, _)
InsertByScore(sorted, x) ==
    IF sorted = <<>> THEN <<x>>
    ELSE IF Head(sorted).score >= x.score
         THEN <<Head(sorted)>> \o InsertByScore(Tail(sorted), x)
         ELSE <<x>> \o sorted

RECURSIVE SortByScore(_)
SortByScore(scored) ==
    IF scored = <<>> THEN <<>>
    ELSE InsertByScore(SortByScore(Pop(scored)), Last(scored))

RECURSIVE ScoreItems(_, _, _)
ScoreItems(items, query, idx) ==
    LET entry(m) == IF m.matched THEN <<[idx |-> idx, score |-> m.score]>> ELSE <<>>
    IN  IF idx >= Len(items) THEN <<>>
        ELSE entry(fuzzy_match(Get(items, idx).title, query))
             \o ScoreItems(items, query, idx + 1)

\* as filter_indices, but the indices come out last first, also for the empty query
filter_indices_unordered(items, query) ==
    LET indices(scored) == [i \in 1..Len(scored) |-> scored[Len(scored) + 1 - i].idx]
    IN  indices(SortByScore(ScoreItems(items, query, 0)))

filter_indices(items, query) ==
    LET indices(scored) == [i \in 1..Len(scored) |-> scored[i].idx]
    IN  IF query = <<>> THEN [i \in 1..Len(items) |-> i - 1]
        ELSE indices(SortByScore(ScoreItems(items, query, 0)))

\* as update_filtered_items, but the committed item and its details are kept
update_filtered_items_keep_details(a) ==
    LET with(filtered) ==
            [a EXCEPT !.filtered_item_indices = filtered,
                      !.vault_item_list_state = IF filtered /= <<>> THEN 0 ELSE None]
    IN  with(filter_indices(a.vault_items, a.search_query))

\* as update_filtered_items, but the cursor is left where it was
update_filtered_items_keep_cursor(a) ==
    [a EXCEPT !.filtered_item_indices = filter_indices(a.vault_items, a.search_query),
              !.selected_vault_item_idx = None,
              !.selected_item_details = NoDetails,
              !.details_for = <<"", "", "">>]

update_filtered_items(a) ==
    LET with(filtered) ==
            [a EXCEPT !.filtered_item_indices = filtered,
                      !.vault_item_list_state = IF filtered /= <<>> THEN 0 ELSE None,
                      !.selected_vault_item_idx = None,
                      !.selected_item_details = NoDetails,
                      !.details_for = <<"", "", "">>]
    IN  with(filter_indices(a.vault_items, a.search_query))

clear_search_keeps_filter(a) ==
    [a EXCEPT !.search_query = <<>>, !.search_active = FALSE]

clear_search(a) ==
    update_filtered_items([a EXCEPT !.search_query = <<>>, !.search_active = FALSE])

\* op answers a request for a vault the account does not hold, or for an item
\* the vault does not hold, with a non-zero exit
HasVault(account_id, vault_id) ==
    \E k \in 1..Len(WorldVaults(account_id)) : WorldVaults(account_id)[k].id = vault_id

HasItem(vault_id, item_id) ==
    \E k \in 1..Len(WorldItems(vault_id)) : WorldItems(vault_id)[k].id = item_id

op_answer(found, outcome) == IF found \/ outcome = "spawn" THEN outcome ELSE "nonzero"

load_vault_items(a, outcome) ==
    LET first(c) == [c EXCEPT !.vault_item_list_state =
                                  IF c.filtered_item_indices /= <<>> THEN 0 ELSE @]
        parsed(b, account_id, vault_id, vault_items) ==
            first(update_filtered_items([b EXCEPT !.vault_items = vault_items,
                                                  !.items_for = <<account_id, vault_id>>]))
        answered(r, answer, account_id, vault_id, vault_items) ==
            IF ~r.ok THEN r
            ELSE IF answer = "badjson" THEN Err(r.app, "Failed to parse vault items JSON")
            ELSE Ok(parsed(log_success(r.app, "op item list", Len(vault_items)),
                           account_id, vault_id, vault_items))
        called(answer, account_id, vault_id) ==
            answered(run_op_command(a, "op item list", answer), answer,
                     account_id, vault_id, WorldItems(vault_id))
        asked(account_id, vault_id) ==
            IF account_id = "" \/ vault_id = "" THEN Err([a EXCEPT !.panicked = TRUE], "panic")
            ELSE called(op_answer(HasVault(account_id, vault_id), outcome),
                        account_id, vault_id)
    IN  IF a.selected_account_idx = None \/ a.selected_vault_idx = None
        THEN Err(a, "Cannot list vault items when account/vault are not selected")
        ELSE asked(selected_account(a), selected_vault(a))

load_item_details(a, item_id, outcome) ==
    LET parsed(b, account_id, vault_id, fields) ==
            [b EXCEPT !.selected_item_details =
                          [some |-> TRUE, id |-> item_id, fields |-> fields],
                      !.details_for = <<account_id, vault_id, item_id>>]
        answered(r, answer, account_id, vault_id, fields) ==
            IF ~r.ok THEN r
            ELSE IF answer = "badjson" THEN Err(r.app, "Failed to parse item details JSON")
            ELSE Ok(parsed(log_success(r.app, "op item get", Len(fields)),
                           account_id, vault_id, fields))
        called(answer, account_id, vault_id) ==
            answered(run_op_command(a, "op item get", answer), answer,
                     account_id, vault_id, WorldFields(item_id))
        asked(account_id, vault_id) ==
            IF account_id = "" \/ vault_id = "" THEN Err([a EXCEPT !.panicked = TRUE], "panic")
            ELSE called(op_answer(HasVault(account_id, vault_id) /\ HasItem(vault_id, item_id),
                                  outcome),
                        account_id, vault_id)
    IN  asked(selected_account(a), selected_vault(a))

open_modal(a, field_reference) ==
    [a EXCEPT !.modal = [kind |-> "EnvVar", env_var_name |-> <<>>,
                         field_reference |-> field_reference, vars |-> <<>>]]

close_modal(a) == [a EXCEPT !.modal = NoModal, !.error_message = ""]

open_vars_delete_modal(a, target_vars) ==
    [a EXCEPT !.modal = [kind |-> "VarDeleteConfirm", env_var_name |-> <<>>,
                         field_reference |-> "", vars |-> target_vars]]

(***************************************************************************)
(* The Config Store.  Each writer changes the document in memory and then  *)
(* stores it; store_ok is whether confy::store succeeds.                   *)
(***************************************************************************)
save_op_item_config(a, var_name, account_id, op_reference, store_ok) ==
    LET kept == {b \in a.config.inject_vars : b.name /= var_name}
        b == [a EXCEPT !.config.inject_vars =
                 kept \cup {[name |-> var_name, account_id |-> account_id,
                             op_reference |-> op_reference]}]
    IN  IF store_ok THEN Ok(b) ELSE Err(b, "Failed to save configuration")

set_default_vault(a, account_id, vault_id, store_ok) ==
    LET b == [a EXCEPT !.config.default_vault_per_account[account_id] = vault_id]
    IN  IF store_ok THEN Ok(b) ELSE Err(b, "Failed to save configuration")

set_default_account(a, account_id, store_ok) ==
    LET b == [a EXCEPT !.config.default_account_id = account_id]
    IN  IF store_ok THEN Ok(b) ELSE Err(b, "Failed to save configuration")

load_managed_vars(a) ==
    [a EXCEPT !.managed_vars = SortedSeq({b.name : b \in a.config.inject_vars})]

selected_managed_var(a) ==
    IF a.managed_vars_list_state /= None /\ InRange(a.managed_vars, a.managed_vars_list_state)
    THEN <<Get(a.managed_vars, a.managed_vars_list_state)>> ELSE <<>>

toggle_managed_var_selection(a, var) ==
    [a EXCEPT !.managed_vars_selected = IF var \in @ THEN @ \ {var} ELSE @ \cup {var}]

remove_managed_vars(a, target_vars, store_ok) ==
    LET clamp(b) ==
            [b EXCEPT !.managed_vars_list_state =
                IF b.managed_vars = <<>> THEN None
                ELSE IF @ = None THEN None
                ELSE Min2(@, Len(b.managed_vars) - 1)]
        without(gone) ==
            clamp(load_managed_vars(
                [a EXCEPT !.config.inject_vars = {x \in @ : x.name \notin gone},
                          !.managed_vars_selected = @ \ gone]))
    IN  IF ~store_ok THEN Err(a, "Failed to save configuration")
        ELSE Ok(without({target_vars[i] : i \in 1..Len(target_vars)}))

(***************************************************************************)
(* ListNav (src/src/event.rs): the five panels.                            *)
(***************************************************************************)
Selectable(fields) == SelectSeq(fields, LAMBDA f : f.label /= "notesPlain")

nav_len(a, nav) ==
    CASE nav = "AccountList" -> Len(a.accounts)
      [] nav = "VaultList" -> Len(a.vaults)
      [] nav = "VaultItemList" -> Len(a.filtered_item_indices)
      [] nav = "VaultItemDetail" ->
            IF a.selected_item_details.some
            THEN Len(Selectable(a.selected_item_details.fields)) ELSE 0
      [] OTHER -> Len(a.managed_vars)

list_state(a, nav) ==
    CASE nav = "AccountList" -> a.account_list_state
      [] nav = "VaultList" -> a.vault_list_state
      [] nav = "VaultItemList" -> a.vault_item_list_state
      [] nav = "VaultItemDetail" -> a.item_detail_list_state
      [] OTHER -> a.managed_vars_list_state

select(a, nav, idx) ==
    CASE nav = "AccountList" -> [a EXCEPT !.account_list_state = idx]
      [] nav = "VaultList" -> [a EXCEPT !.vault_list_state = idx]
      [] nav = "VaultItemList" -> [a EXCEPT !.vault_item_list_state = idx]
      [] nav = "VaultItemDetail" -> [a EXCEPT !.item_detail_list_state = idx]
      [] OTHER -> [a EXCEPT !.managed_vars_list_state = idx]

unwrap_or(opt, default) == IF opt = None THEN default ELSE opt

\* as handle_up, but the cursor stops at index 0
handle_up_no_wrap(a, nav) ==
    LET moved(len, idx) ==
            IF len = 0 THEN a
            ELSE select(a, nav, IF idx = 0 THEN 0 ELSE idx - 1)
    IN  moved(nav_len(a, nav), unwrap_or(list_state(a, nav), 0))

handle_up(a, nav) ==
    LET moved(len, idx) ==
            IF len = 0 THEN a
            ELSE select(a, nav, IF idx = 0 THEN len - 1 ELSE idx - 1)
    IN  moved(nav_len(a, nav), unwrap_or(list_state(a, nav), 0))

handle_down(a, nav) ==
    LET moved(len, idx) ==
            IF len = 0 THEN a
            ELSE select(a, nav, IF idx = len - 1 THEN 0 ELSE idx + 1)
    IN  moved(nav_len(a, nav), unwrap_or(list_state(a, nav), 0))

\* Vec::iter().position: the first index holding the vault id, or None
position(vaults, vault_id) ==
    LET first(hits) == IF hits = {} THEN None ELSE CHOOSE i \in hits : \A j \in hits : i <= j
    IN  first({i \in 0..(Len(vaults) - 1) : Get(vaults, i).id = vault_id})

with_error(r) == IF r.ok THEN r.app ELSE [r.app EXCEPT !.error_message = r.err]

default_vault_idx(a) ==
    LET found(vault_id) == IF vault_id = "" THEN None ELSE position(a.vaults, vault_id)
        of(account_id) ==
            found(IF account_id = "" THEN ""
                  ELSE a.config.default_vault_per_account[account_id])
    IN  of(selected_account(a))

\* an account Select that keeps the items of the vault it leaves
AccountListNav_on_select_keeps_items(a, o_vaults, o_items) ==
    LET with_default(b, vault_idx) ==
            IF vault_idx = None THEN b
            ELSE with_error(load_vault_items(
                    [b EXCEPT !.selected_vault_idx = vault_idx,
                              !.vault_list_state = vault_idx], o_items))
        reloaded(b) == with_default(b, default_vault_idx(b))
        a1 == [a EXCEPT !.selected_account_idx = a.account_list_state]
        a2 == clear_search(a1)
        a3 == reloaded(with_error(load_vaults(a2, o_vaults)))
    IN  [a3 EXCEPT !.focused_panel = "VaultList"]

AccountListNav_on_select(a, o_vaults, o_items) ==
    LET cleared(b) == [b EXCEPT !.vault_items = <<>>,
                                !.items_for = <<"", "">>,
                                !.filtered_item_indices = <<>>,
                                !.selected_item_details = NoDetails,
                                !.details_for = <<"", "", "">>]
        with_default(b, vault_idx) ==
            IF vault_idx = None THEN b
            ELSE with_error(load_vault_items(
                    [b EXCEPT !.selected_vault_idx = vault_idx,
                              !.vault_list_state = vault_idx], o_items))
        reloaded(b) == with_default(b, default_vault_idx(b))
        a1 == [a EXCEPT !.selected_account_idx = a.account_list_state]
        a2 == cleared(clear_search(a1))
        a3 == reloaded(with_error(load_vaults(a2, o_vaults)))
    IN  [a3 EXCEPT !.focused_panel = "VaultList"]

VaultListNav_on_select(a, o_items) ==
    LET a1 == [a EXCEPT !.selected_vault_idx = a.vault_list_state]
        a2 == clear_search(a1)
        a3 == with_error(load_vault_items(a2, o_items))
    IN  [a3 EXCEPT !.focused_panel = "VaultItemList"]

VaultItemListNav_on_select(a, o_details) ==
    LET list_idx == a.vault_item_list_state
        loaded(r) ==
            IF ~r.ok THEN with_error(r)
            ELSE [r.app EXCEPT !.item_detail_list_state = 0,
                               !.selected_field_idx = None,
                               !.focused_panel = "VaultItemDetail"]
        selected(a1) ==
            IF list_idx /= None /\ InRange(a1.filtered_item_indices, list_idx)
               /\ InRange(a1.vault_items, Get(a1.filtered_item_indices, list_idx))
            THEN loaded(load_item_details(
                    a1, Get(a1.vault_items, Get(a1.filtered_item_indices, list_idx)).id,
                    o_details))
            ELSE a1
    IN  selected([a EXCEPT !.selected_vault_item_idx = list_idx])

VaultItemDetailNav_on_select(a) ==
    LET list_idx == a.item_detail_list_state
        nth(a1, fields) ==
            IF list_idx /= None /\ a1.selected_item_details.some /\ InRange(fields, list_idx)
            THEN open_modal(a1, Get(fields, list_idx).reference)
            ELSE a1
        selected(a1) == nth(a1, Selectable(a1.selected_item_details.fields))
    IN  selected([a EXCEPT !.selected_field_idx = list_idx])

VarsListNav_on_select(a) == a

on_select(a, nav, env) ==
    CASE nav = "AccountList" -> AccountListNav_on_select(a, env.o1, env.o2)
      [] nav = "VaultList" -> VaultListNav_on_select(a, env.o1)
      [] nav = "VaultItemList" -> VaultItemListNav_on_select(a, env.o1)
      [] nav = "VaultItemDetail" -> VaultItemDetailNav_on_select(a)
      [] OTHER -> VarsListNav_on_select(a)

(***************************************************************************)
(* Key dispatch (src/src/event.rs).                                        *)
(***************************************************************************)
NavAction_from_key(key) ==
    CASE key.code = "Up" \/ (key.code = "Char" /\ key.ch \in {"k", "K"}) -> "Up"
      [] key.code = "Down" \/ (key.code = "Char" /\ key.ch \in {"j", "J"}) -> "Down"
      [] key.code = "Enter" -> "Select"
      [] key.code = "Char" /\ key.ch \in {"q", "Q"} -> "Quit"
      [] key.code = "Char" /\ key.ch = "0" -> "PanelZero"
      [] key.code = "Char" /\ key.ch = "1" -> "PanelOne"
      [] key.code = "Char" /\ key.ch = "2" -> "PanelTwo"
      [] key.code = "Char" /\ key.ch = "3" -> "PanelFour"
      [] key.code = "Char" /\ key.ch \in {"v", "V"} -> "PanelVars"
      [] OTHER -> ""

VarsAction_from_key(key) ==
    CASE key.code = "Char" /\ key.ch = " " -> "Toggle"
      [] key.code = "Char" /\ key.ch \in {"c", "C"} -> "Copy"
      [] key.code = "Char" /\ key.ch \in {"d", "D"} -> "Delete"
      [] OTHER -> ""

\* the marked set when it is not empty, else the entry under the cursor
vars_target(a) ==
    IF a.managed_vars_selected = {} THEN selected_managed_var(a)
    ELSE SortedSeq(a.managed_vars_selected)

\* as handle_vars_action, but copy and delete take the entry under the cursor
\* also when entries are marked
handle_vars_action_cursor_only(a, action, clip_ok) ==
    LET toggle(var) == IF var /= <<>> THEN toggle_managed_var_selection(a, var[1]) ELSE a
        copy(target) ==
            IF target = <<>> THEN log_failure(a, "Vars copy")
            ELSE IF clip_ok
            THEN log_success([a EXCEPT !.copied = target], "Vars copied", None)
            ELSE log_failure(a, "Vars copy")
        delete(target) ==
            IF target = <<>> THEN log_failure(a, "Vars delete")
            ELSE open_vars_delete_modal(a, target)
    IN  CASE action = "Toggle" -> toggle(selected_managed_var(a))
          [] action = "Copy" -> copy(selected_managed_var(a))
          [] OTHER -> delete(selected_managed_var(a))

handle_vars_action(a, action, clip_ok) ==
    LET toggle(var) == IF var /= <<>> THEN toggle_managed_var_selection(a, var[1]) ELSE a
        copy(target) ==
            IF target = <<>> THEN log_failure(a, "Vars copy")
            ELSE IF clip_ok
            THEN log_success([a EXCEPT !.copied = target], "Vars copied", None)
            ELSE log_failure(a, "Vars copy")
        delete(target) ==
            IF target = <<>> THEN log_failure(a, "Vars delete")
            ELSE open_vars_delete_modal(a, target)
    IN  CASE action = "Toggle" -> toggle(selected_managed_var(a))
          [] action = "Copy" -> copy(vars_target(a))
          [] OTHER -> delete(vars_target(a))

\* as env_var_modal_key, but a character goes into the name as it was typed
env_var_modal_key_as_typed(a, key, env) ==
    LET first(b) == IF b.managed_vars_list_state = None /\ b.managed_vars /= <<>>
                    THEN [b EXCEPT !.managed_vars_list_state = 0] ELSE b
        saved(r) ==
            IF r.ok
            THEN close_modal(first(load_managed_vars(
                    log_success(r.app, "Saved to config", None))))
            ELSE with_error(r)
        enter(env_var_name, op_reference, account_id) ==
            IF env_var_name = <<>>
            THEN [a EXCEPT !.error_message = "Environment variable name cannot be empty"]
            ELSE IF op_reference = "" THEN a
            ELSE IF account_id = "" THEN [a EXCEPT !.error_message = "No account selected"]
            ELSE saved(save_op_item_config(a, env_var_name, account_id, op_reference,
                                           env.store))
    IN  CASE key.code = "Esc" -> close_modal(a)
          [] key.code = "Enter" ->
                enter(a.modal.env_var_name, a.modal.field_reference, selected_account(a))
          [] key.code = "Backspace" ->
                [a EXCEPT !.modal.env_var_name = Pop(@), !.error_message = ""]
          [] key.code = "Char" ->
                IF is_ascii_alphanumeric(key.ch) \/ key.ch = "_"
                THEN [a EXCEPT !.modal.env_var_name = Append(@, key.ch),
                               !.error_message = ""]
                ELSE a
          [] OTHER -> a

env_var_modal_key(a, key, env) ==
    LET first(b) == IF b.managed_vars_list_state = None /\ b.managed_vars /= <<>>
                    THEN [b EXCEPT !.managed_vars_list_state = 0] ELSE b
        saved(r) ==
            IF r.ok
            THEN close_modal(first(load_managed_vars(
                    log_success(r.app, "Saved to config", None))))
            ELSE with_error(r)
        enter(env_var_name, op_reference, account_id) ==
            IF env_var_name = <<>>
            THEN [a EXCEPT !.error_message = "Environment variable name cannot be empty"]
            ELSE IF op_reference = "" THEN a
            ELSE IF account_id = "" THEN [a EXCEPT !.error_message = "No account selected"]
            ELSE saved(save_op_item_config(a, env_var_name, account_id, op_reference,
                                           env.store))
    IN  CASE key.code = "Esc" -> close_modal(a)
          [] key.code = "Enter" ->
                enter(a.modal.env_var_name, a.modal.field_reference, selected_account(a))
          [] key.code = "Backspace" ->
                [a EXCEPT !.modal.env_var_name = Pop(@), !.error_message = ""]
          [] key.code = "Char" ->
                IF is_ascii_alphanumeric(key.ch) \/ key.ch = "_"
                THEN [a EXCEPT !.modal.env_var_name = Append(@, to_ascii_uppercase(key.ch)),
                               !.error_message = ""]
                ELSE a
          [] OTHER -> a

\* as var_delete_modal_key, but a key that is none of y, n and Esc closes the modal
var_delete_modal_key_any_key_closes(a, key, env) ==
    LET removed(r) ==
            IF r.ok THEN close_modal(log_success(r.app, "Vars removed", None))
            ELSE with_error(r)
    IN  CASE key.code = "Esc" \/ (key.code = "Char" /\ key.ch \in {"n", "N"}) ->
                close_modal(a)
          [] key.code = "Char" /\ key.ch \in {"y", "Y"} ->
                removed(remove_managed_vars(a, a.modal.vars, env.store))
          [] OTHER -> close_modal(a)

var_delete_modal_key(a, key, env) ==
    LET removed(r) ==
            IF r.ok THEN close_modal(log_success(r.app, "Vars removed", None))
            ELSE with_error(r)
    IN  CASE key.code = "Esc" \/ (key.code = "Char" /\ key.ch \in {"n", "N"}) ->
                close_modal(a)
          [] key.code = "Char" /\ key.ch \in {"y", "Y"} ->
                removed(remove_managed_vars(a, a.modal.vars, env.store))
          [] OTHER -> a

\* as search_key, but Enter selects without leaving search mode
search_key_enter_in_search(a, key, env) ==
    CASE key.code = "Esc" -> clear_search(a)
      [] key.code = "Enter" -> VaultItemListNav_on_select(a, env.o1)
      [] key.code = "Backspace" ->
            update_filtered_items([a EXCEPT !.search_query = Pop(@)])
      [] key.code = "Char" ->
            update_filtered_items([a EXCEPT !.search_query = Append(@, key.ch)])
      [] key.code = "Up" -> handle_up(a, "VaultItemList")
      [] key.code = "Down" -> handle_down(a, "VaultItemList")
      [] OTHER -> a

search_key(a, key, env) ==
    CASE key.code = "Esc" -> clear_search(a)
      [] key.code = "Enter" ->
            VaultItemListNav_on_select([a EXCEPT !.search_active = FALSE], env.o1)
      [] key.code = "Backspace" ->
            update_filtered_items([a EXCEPT !.search_query = Pop(@)])
      [] key.code = "Char" ->
            update_filtered_items([a EXCEPT !.search_query = Append(@, key.ch)])
      [] key.code = "Up" -> handle_up(a, "VaultItemList")
      [] key.code = "Down" -> handle_down(a, "VaultItemList")
      [] OTHER -> a

favorite_key(a, env) ==
    LET account_saved(r) ==
            IF ~r.ok
            THEN log_failure(r.app, "Failed to save default account configuration")
            ELSE AccountListNav_on_select(
                    log_success(r.app, "Saved default account configuration", None),
                    env.o1, env.o2)
        vault_saved(r) ==
            IF ~r.ok
            THEN log_failure(r.app, "Failed to save default vault configuration")
            ELSE VaultListNav_on_select(
                    log_success(r.app, "Saved default vault configuration", None),
                    env.o1)
    IN  CASE a.focused_panel = "AccountList" ->
                IF a.account_list_state /= None /\ InRange(a.accounts, a.account_list_state)
                THEN account_saved(set_default_account(
                        a, Get(a.accounts, a.account_list_state).account_uuid, env.store))
                ELSE a
          [] a.focused_panel = "VaultList" ->
                IF selected_account(a) /= ""
                   /\ a.vault_list_state /= None /\ InRange(a.vaults, a.vault_list_state)
                THEN vault_saved(set_default_vault(
                        a, selected_account(a), Get(a.vaults, a.vault_list_state).id,
                        env.store))
                ELSE a
          [] OTHER -> a

nav_key(a, key, env) ==
    LET action == NavAction_from_key(key)
    IN  CASE action = "Quit" -> [a EXCEPT !.should_quit = TRUE]
          [] action = "PanelZero" -> [a EXCEPT !.focused_panel = "AccountList"]
          [] action = "PanelOne" -> [a EXCEPT !.focused_panel = "VaultList"]
          [] action = "PanelTwo" -> [a EXCEPT !.focused_panel = "VaultItemList"]
          [] action = "PanelFour" -> [a EXCEPT !.focused_panel = "VaultItemDetail"]
          [] action = "PanelVars" ->
                [a EXCEPT !.focused_panel = "VarsList",
                          !.managed_vars_list_state =
                              IF @ = None /\ a.managed_vars /= <<>> THEN 0 ELSE @]
          [] action = "Up" -> handle_up(a, a.focused_panel)
          [] action = "Down" -> handle_down(a, a.focused_panel)
          [] action = "Select" -> on_select(a, a.focused_panel, env)
          [] OTHER -> a

\* as handle_key_press, but q quits before the search branch is looked at
handle_key_press_quit_first(a, key, env) ==
    IF a.modal.kind = "EnvVar" THEN env_var_modal_key(a, key, env)
    ELSE IF a.modal.kind = "VarDeleteConfirm" THEN var_delete_modal_key(a, key, env)
    ELSE IF NavAction_from_key(key) = "Quit" THEN nav_key(a, key, env)
    ELSE IF a.search_active THEN search_key(a, key, env)
    ELSE IF key = CharKey("/") /\ a.focused_panel \in {"VaultItemList", "VaultItemDetail"}
         THEN [a EXCEPT !.search_active = TRUE]
    ELSE IF a.focused_panel = "VarsList" /\ VarsAction_from_key(key) /= ""
         THEN handle_vars_action(a, VarsAction_from_key(key), env.clip)
    ELSE IF key.code = "Char" /\ key.ch \in {"f", "F"}
         THEN nav_key(favorite_key(a, env), key, env)
    ELSE nav_key(a, key, env)

\* as handle_key_press, but Up and Down pass an open modal and reach the panel
handle_key_press_modal_leak(a, key, env) ==
    IF a.modal.kind = "EnvVar" /\ key.code \notin {"Up", "Down"}
    THEN env_var_modal_key(a, key, env)
    ELSE IF a.modal.kind = "VarDeleteConfirm" /\ key.code \notin {"Up", "Down"}
    THEN var_delete_modal_key(a, key, env)
    ELSE IF a.search_active THEN search_key(a, key, env)
    ELSE IF key = CharKey("/") /\ a.focused_panel \in {"VaultItemList", "VaultItemDetail"}
         THEN [a EXCEPT !.search_active = TRUE]
    ELSE IF a.focused_panel = "VarsList" /\ VarsAction_from_key(key) /= ""
         THEN handle_vars_action(a, VarsAction_from_key(key), env.clip)
    ELSE IF key.code = "Char" /\ key.ch \in {"f", "F"}
         THEN nav_key(favorite_key(a, env), key, env)
    ELSE nav_key(a, key, env)

handle_key_press(a, key, env) ==
    IF a.modal.kind = "EnvVar" THEN env_var_modal_key(a, key, env)
    ELSE IF a.modal.kind = "VarDeleteConfirm" THEN var_delete_modal_key(a, key, env)
    ELSE IF a.search_active THEN search_key(a, key, env)
    ELSE IF key = CharKey("/") /\ a.focused_panel \in {"VaultItemList", "VaultItemDetail"}
         THEN [a EXCEPT !.search_active = TRUE]
    ELSE IF a.focused_panel = "VarsList" /\ VarsAction_from_key(key) /= ""
         THEN handle_vars_action(a, VarsAction_from_key(key), env.clip)
    ELSE IF key.code = "Char" /\ key.ch \in {"f", "F"}
         THEN nav_key(favorite_key(a, env), key, env)
    ELSE nav_key(a, key, env)

(***************************************************************************)
(* The command-line side (src/src/cli.rs, src/src/cache.rs).  Its state is *)
(* on disk, in the variable disk: the clock, and the entries of the cache  *)
(* directory by file name.  A file name is the triple of format!'s         *)
(* arguments <<prefix, sanitized account id, extension>>; file contents    *)
(* are sequences of lines, a line a sequence of tokens.  A call returns a  *)
(* record with the disk it leaves behind.  An I/O step that the operating  *)
(* system may refuse takes the refusal as the argument `fault` or `fails`. *)
(***************************************************************************)
CacheKinds == <<"EnvInject", "TemplateRender">>

NoFile == [type |-> "none", content |-> <<>>, mtime |-> 0]

File(content, mtime) == [type |-> "file", content |-> content, mtime |-> mtime]

sanitize_account_id(account_id) ==
    LET sanitized == [k \in 1..Len(account_id) |->
                         IF is_ascii_alphanumeric(account_id[k])
                            \/ account_id[k] \in {"-", "_", "."}
                         THEN account_id[k] ELSE "_"]
    IN  IF sanitized = <<>> THEN <<"a", "c", "c", "o", "u", "n", "t">> ELSE sanitized

cache_path_for_account(account_id, kind) ==
    <<IF kind = "EnvInject" THEN "op_inject_env" ELSE "op_inject_template",
      sanitize_account_id(account_id), ".cache">>

\* the account ids the commands are run with, and the entries the cache
\* directory can hold: their cache files, a file of another program, a directory
AccountArgs == {<<"a", "/">>, <<"a", "_">>, <<"k">>}

CachePaths ==
    {cache_path_for_account(id, CacheKinds[k]) : id \in AccountArgs, k \in 1..2}
    \cup {<<"extra-file", <<>>, ".txt">>, <<"nested", <<>>, "">>}

\* the files the template commands are given, as <<directory, file name>>;
\* "~" is the home directory, which is the directory "a"
TargetPaths == {<<"a", "npmrc">>, <<"b", "npmrc">>, <<"a", "env">>}

path_to_template_name(path) == <<Last(path), ".tmpl">>

\* "~/" is replaced by the home directory; a path that exists is made
\* canonical (the working directory is the home directory, "a"), a path that
\* does not exist is returned as it was given
expand_path(d, path) ==
    LET canonical(p) == IF Head(p) = "." THEN <<"a">> \o Tail(p) ELSE p
        canonicalized(expanded) ==
            IF d.files[canonical(expanded)].type = "file"
            THEN canonical(expanded) ELSE expanded
    IN  canonicalized(IF Head(path) = "~" THEN <<"a">> \o Tail(path) ELSE path)

\* config.inject_vars holds records [name, account_id, op_reference],
\* config.templated_files records [target, template_name]
Disk_new ==
    [now |-> 0,
     cache |-> [p \in CachePaths |-> NoFile],
     config |-> [inject_vars |-> {}, templated_files |-> {}],
     templates_dir |-> FALSE,
     templates |-> [n \in {path_to_template_name(p) : p \in TargetPaths} |-> NoFile],
     files |-> [p \in TargetPaths |-> NoFile]]

read_cached_output_expires_at_ttl(d, account_id, kind, ttl, fault) ==
    LET Error == [ok |-> FALSE, outcome |-> "Error", contents |-> <<>>]
        aged(entry, age) ==
            IF age >= ttl THEN [ok |-> TRUE, outcome |-> "Expired", contents |-> <<>>]
            ELSE IF fault = "read" THEN Error
            ELSE [ok |-> TRUE, outcome |-> "Hit", contents |-> entry.content]
        found(entry) ==
            IF fault = "stat" THEN Error
            ELSE IF entry.type = "none"
            THEN [ok |-> TRUE, outcome |-> "Miss", contents |-> <<>>]
            ELSE IF fault = "mtime" THEN Error
            ELSE aged(entry, IF d.now >= entry.mtime THEN d.now - entry.mtime ELSE 0)
    IN  found(d.cache[cache_path_for_account(account_id, kind)])

\* fault: "stat" (fs::metadata refused), "mtime" (Metadata::modified
\* unsupported), "read" (read_to_string refused), "none"
read_cached_output(d, account_id, kind, ttl, fault) ==
    LET Error == [ok |-> FALSE, outcome |-> "Error", contents |-> <<>>]
        aged(entry, age) ==
            IF age > ttl THEN [ok |-> TRUE, outcome |-> "Expired", contents |-> <<>>]
            ELSE IF fault = "read" THEN Error
            ELSE [ok |-> TRUE, outcome |-> "Hit", contents |-> entry.content]
        found(entry) ==
            IF fault = "stat" THEN Error
            ELSE IF entry.type = "none"
            THEN [ok |-> TRUE, outcome |-> "Miss", contents |-> <<>>]
            ELSE IF fault = "mtime" THEN Error
            ELSE aged(entry, IF d.now >= entry.mtime THEN d.now - entry.mtime ELSE 0)
    IN  found(d.cache[cache_path_for_account(account_id, kind)])

write_cached_output_no_truncate(d, account_id, kind, output, fault) ==
    LET residue(old) == IF Len(old) > Len(output)
                        THEN SubSeq(old, Len(output) + 1, Len(old)) ELSE <<>>
        stored(path, content) ==
            [d EXCEPT !.cache[path] = File(content \o residue(@.content), d.now)]
        opened(path) ==
            IF fault = "open" THEN [disk |-> d, ok |-> FALSE]
            ELSE IF fault \in {"perm", "write"}
            THEN [disk |-> stored(path, <<>>), ok |-> FALSE]
            ELSE [disk |-> stored(path, output), ok |-> TRUE]
    IN  opened(cache_path_for_account(account_id, kind))

\* fault: "open" (the file cannot be opened), "perm" (the mode cannot be set
\* on the truncated file), "write" (write_all refused), "none"
write_cached_output(d, account_id, kind, output, fault) ==
    LET stored(path, content) ==
            [d EXCEPT !.cache[path] = File(content, d.now)]
        opened(path) ==
            IF fault = "open" THEN [disk |-> d, ok |-> FALSE]
            ELSE IF fault \in {"perm", "write"}
            THEN [disk |-> stored(path, <<>>), ok |-> FALSE]
            ELSE [disk |-> stored(path, output), ok |-> TRUE]
    IN  opened(cache_path_for_account(account_id, kind))

\* The steps of write_cached_output, for runs of several processes.  A cache
\* file carries its mode here; a created file has the mode the umask leaves.
\* OpenOptions create + write + truncate: an existing file is emptied and
\* keeps its mode
open_truncate(d, path) ==
    [d EXCEPT !.cache[path] =
        IF @.type = "file" THEN [@ EXCEPT !.content = <<>>, !.mtime = d.now]
        ELSE [type |-> "file", content |-> <<>>, mtime |-> d.now, mode |-> "0644"]]

set_permissions_keeps_mode(d, path) == d

\* fs::set_permissions(&path, 0o600)
set_permissions(d, path) == [d EXCEPT !.cache[path].mode = "0600"]

\* file.write_all(output) through a descriptor opened at offset 0: the
\* output replaces as much of the file as it covers
write_all(d, path, output) ==
    [d EXCEPT !.cache[path].content =
                  output \o SubSeq(@, Len(output) + 1, Len(@)),
              !.cache[path].mtime = d.now]

remove_cache_for_account_first_kind(d, account_id, fails) ==
    LET removed(r, path) ==
            IF ~r.ok \/ r.disk.cache[path].type = "none" THEN r
            ELSE IF path \in fails THEN [r EXCEPT !.ok = FALSE]
            ELSE [disk |-> [r.disk EXCEPT !.cache[path] = NoFile], ok |-> TRUE,
                  removed_any |-> TRUE]
        first(r) == removed(r, cache_path_for_account(account_id, CacheKinds[1]))
        result(r) == [disk |-> r.disk, ok |-> r.ok,
                      removal |-> IF ~r.ok THEN "Error"
                                  ELSE IF r.removed_any THEN "Removed" ELSE "NotFound"]
    IN  result(first([disk |-> d, ok |-> TRUE, removed_any |-> FALSE]))

\* fails: the paths fs::remove_file refuses to remove
remove_cache_for_account(d, account_id, fails) ==
    LET removed(r, path) ==
            IF ~r.ok \/ r.disk.cache[path].type = "none" THEN r
            ELSE IF path \in fails THEN [r EXCEPT !.ok = FALSE]
            ELSE [disk |-> [r.disk EXCEPT !.cache[path] = NoFile], ok |-> TRUE,
                  removed_any |-> TRUE]
        first(r) == removed(r, cache_path_for_account(account_id, CacheKinds[1]))
        second(r) == removed(r, cache_path_for_account(account_id, CacheKinds[2]))
        result(r) == [disk |-> r.disk, ok |-> r.ok,
                      removal |-> IF ~r.ok THEN "Error"
                                  ELSE IF r.removed_any THEN "Removed" ELSE "NotFound"]
    IN  result(second(first([disk |-> d, ok |-> TRUE, removed_any |-> FALSE])))

clear_all_caches_stops_at_failure(d, fails) ==
    LET files == {p \in CachePaths : d.cache[p].type = "file"}
        kept == IF files \cap fails = {} THEN {} ELSE files
    IN  [disk |-> [d EXCEPT !.cache = [p \in CachePaths |->
                                          IF p \in files \ kept THEN NoFile ELSE @[p]]],
         ok |-> files \cap fails = {},
         removed |-> Cardinality(files \ kept),
         failed |-> Cardinality(files \cap fails)]

clear_all_caches(d, fails) ==
    LET files == {p \in CachePaths : d.cache[p].type = "file"}
    IN  [disk |-> [d EXCEPT !.cache = [p \in CachePaths |->
                                          IF p \in files \ fails THEN NoFile ELSE @[p]]],
         ok |-> TRUE,
         removed |-> Cardinality(files \ fails),
         failed |-> Cardinality(files \cap fails)]

(***************************************************************************)
(* Env injection and template rendering (src/src/cli.rs).  `op inject`     *)
(* answers its input with every secret reference resolved.  env gives what *)
(* the run meets: inject[account] the end of `op inject` for the account,  *)
(* rfault and wfault the refused step of the cache read and write, rev the *)
(* iteration order of config.inject_vars (by name, or the reverse), rrev   *)
(* that of the table of resolved values.                                   *)
(***************************************************************************)
Secret(token) ==
    CASE token = "r1" -> "s1" [] token = "r2" -> "s2" [] token = "r3" -> "s3"
      [] OTHER -> token

run_op_inject(input, outcome) ==
    IF outcome = "ok"
    THEN [ok |-> TRUE,
          output |-> [i \in DOMAIN input |-> [k \in DOMAIN input[i] |-> Secret(input[i][k])]]]
    ELSE [ok |-> FALSE, output |-> <<>>]

NameOrder == <<"A", "B", "C">>

\* the elements of a HashMap keyed by name, in the order the run iterates it
RECURSIVE InOrder(_, _, _)
InOrder(S, k, rev) ==
    IF k > Len(NameOrder) THEN <<>>
    ELSE LET here == {v \in S : v.name = NameOrder[IF rev THEN Len(NameOrder) + 1 - k ELSE k]}
         IN  (IF here = {} THEN <<>> ELSE <<CHOOSE v \in here : TRUE>>)
             \o InOrder(S, k + 1, rev)

\* the BTreeMap's keys in their order, each with its variables
group_vars_by_account(inject_vars, rev) ==
    LET keys == SortedSeq({v.account_id : v \in inject_vars})
    IN  [i \in DOMAIN keys |->
            [account_id |-> keys[i],
             vars |-> InOrder({v \in inject_vars : v.account_id = keys[i]}, 1, rev)]]

\* the stdin of `op inject`: a line for each variable of the account
env_input(group_vars) ==
    [i \in DOMAIN group_vars |->
        <<"export ", group_vars[i].name, "='", group_vars[i].op_reference, "'">>]

template_input(group_vars) ==
    [i \in DOMAIN group_vars |-> <<group_vars[i].name, ": ", group_vars[i].op_reference>>]

env_inject_account_always_live(acc, group, cache_ttl, env) ==
    LET input == env_input(group.vars)
        injected(r) ==
            IF ~r.ok
            THEN [acc EXCEPT !.invoked = Append(@, group.account_id),
                             !.warned = Append(@, group.account_id)]
            ELSE [acc EXCEPT !.invoked = Append(@, group.account_id),
                             !.output = @ \o r.output,
                             !.disk = IF cache_ttl = None THEN @
                                      ELSE write_cached_output(@, group.account_id, "EnvInject",
                                                               r.output, env.wfault).disk]
    IN  injected(run_op_inject(input, env.inject[group.account_id]))

\* one account of the loop of handle_env_injection; acc carries the disk, the
\* combined output, the accounts `op inject` was run for and the warnings
env_inject_account(acc, group, cache_ttl, env) ==
    LET input == env_input(group.vars)
        injected(r) ==
            IF ~r.ok
            THEN [acc EXCEPT !.invoked = Append(@, group.account_id),
                             !.warned = Append(@, group.account_id)]
            ELSE [acc EXCEPT !.invoked = Append(@, group.account_id),
                             !.output = @ \o r.output,
                             !.disk = IF cache_ttl = None THEN @
                                      ELSE write_cached_output(@, group.account_id, "EnvInject",
                                                               r.output, env.wfault).disk]
        looked(cached) ==
            IF cached.outcome = "Hit" THEN [acc EXCEPT !.output = @ \o cached.contents]
            ELSE injected(run_op_inject(input, env.inject[group.account_id]))
    IN  IF cache_ttl = None
        THEN injected(run_op_inject(input, env.inject[group.account_id]))
        ELSE looked(read_cached_output(acc.disk, group.account_id, "EnvInject",
                                       cache_ttl, env.rfault))

fetch_template_output(d, account_id, input, cache_ttl, env) ==
    LET fetched(r) ==
            IF ~r.ok THEN [disk |-> d, ok |-> FALSE, output |-> <<>>, invoked |-> TRUE]
            ELSE [disk |-> IF cache_ttl = None THEN d
                           ELSE write_cached_output(d, account_id, "TemplateRender",
                                                    r.output, env.wfault).disk,
                  ok |-> TRUE, output |-> r.output, invoked |-> TRUE]
    IN  fetched(run_op_inject(input, env.inject[account_id]))

load_template_output(d, account_id, input, cache_ttl, env) ==
    LET looked(cached) ==
            IF cached.outcome = "Hit"
            THEN [disk |-> d, ok |-> TRUE, output |-> cached.contents, invoked |-> FALSE]
            ELSE fetch_template_output(d, account_id, input, cache_ttl, env)
    IN  IF cache_ttl = None THEN fetch_template_output(d, account_id, input, None, env)
        ELSE looked(read_cached_output(d, account_id, "TemplateRender", cache_ttl, env.rfault))

render_account_failure_fails_all(acc, group, cache_ttl, env) ==
    LET input == template_input(group.vars)
        pairs(output) == {<<output[i][1], output[i][3]>> :
                             i \in {j \in DOMAIN output :
                                      Len(output[j]) = 3 /\ output[j][2] = ": "}}
        merged(resolved, new) ==
            {p \in resolved : \A q \in new : q[1] /= p[1]} \cup new
        loaded(r) ==
            IF ~r.ok
            THEN [acc EXCEPT !.invoked = Append(@, group.account_id),
                             !.ok = FALSE]
            ELSE [acc EXCEPT !.disk = r.disk,
                             !.invoked = IF r.invoked THEN Append(@, group.account_id) ELSE @,
                             !.resolved = merged(@, pairs(r.output))]
    IN  loaded(load_template_output(acc.disk, group.account_id, input, cache_ttl, env))

\* one account of the first loop of render_templates; acc carries the disk,
\* the table of resolved values, the accounts `op inject` was run for and the
\* warnings
render_account(acc, group, cache_ttl, env) ==
    LET input == template_input(group.vars)
        pairs(output) == {<<output[i][1], output[i][3]>> :
                             i \in {j \in DOMAIN output :
                                      Len(output[j]) = 3 /\ output[j][2] = ": "}}
        merged(resolved, new) ==
            {p \in resolved : \A q \in new : q[1] /= p[1]} \cup new
        loaded(r) ==
            IF ~r.ok
            THEN [acc EXCEPT !.invoked = Append(@, group.account_id),
                             !.warned = Append(@, group.account_id)]
            ELSE [acc EXCEPT !.disk = r.disk,
                             !.invoked = IF r.invoked THEN Append(@, group.account_id) ELSE @,
                             !.resolved = merged(@, pairs(r.output))]
    IN  loaded(load_template_output(acc.disk, group.account_id, input, cache_ttl, env))

Placeholder(name) ==
    CASE name = "A" -> "{{A}}" [] name = "B" -> "{{B}}" [] OTHER -> "{{C}}"

\* the text render_templates writes for a template.  A text is a sequence of
\* tokens, "\n" the line feed.  str::lines splits at the line feeds and yields
\* no last empty line; the lines that do not begin with the marker are joined
\* with line feeds, a line feed is appended when the template ends with one
\* and the joined text does not, and the placeholders of the resolved names
\* are replaced one name after the other, in the HashMap's order
rendered_text(content, resolved, rev) ==
    LET RECURSIVE lines(_)
        lines(text) ==
            IF text = <<>> THEN <<>>
            ELSE IF \A k \in DOMAIN text : text[k] /= "\n" THEN <<text>>
            ELSE LET k == CHOOSE k \in DOMAIN text :
                              text[k] = "\n" /\ \A j \in 1..(k - 1) : text[j] /= "\n"
                 IN  <<SubSeq(text, 1, k - 1)>> \o lines(SubSeq(text, k + 1, Len(text)))
        RECURSIVE join(_)
        join(ls) ==
            IF ls = <<>> THEN <<>>
            ELSE IF Len(ls) = 1 THEN ls[1]
            ELSE ls[1] \o <<"\n">> \o join(Tail(ls))
        ends_with_newline(text) == text /= <<>> /\ text[Len(text)] = "\n"
        kept == SelectSeq(lines(content),
                          LAMBDA line : line = <<>> \/ Head(line) /= "# op-loader:")
        terminated(rendered) ==
            IF ends_with_newline(content) /\ ~ends_with_newline(rendered)
            THEN rendered \o <<"\n">> ELSE rendered
        replace(rendered, name) ==
            IF \E p \in resolved : p[1] = name
            THEN [i \in DOMAIN rendered |->
                     IF rendered[i] = Placeholder(name)
                     THEN (CHOOSE p \in resolved : p[1] = name)[2]
                     ELSE rendered[i]]
            ELSE rendered
        RECURSIVE replaced(_, _)
        replaced(rendered, k) ==
            IF k > Len(NameOrder) THEN rendered
            ELSE replaced(replace(rendered,
                                  NameOrder[IF rev THEN Len(NameOrder) + 1 - k ELSE k]),
                          k + 1)
    IN  replaced(terminated(join(kept)), 1)

\* the second loop of render_templates: every managed target whose template
\* file exists is written
write_rendered(d, resolved, rev) ==
    LET managed(p) == {t \in d.config.templated_files :
                          t.target = p /\ d.templates[t.template_name].type = "file"}
    IN  [d EXCEPT !.files =
            [p \in TargetPaths |->
                IF managed(p) = {} THEN @[p]
                ELSE File(rendered_text(
                              d.templates[(CHOOSE t \in managed(p) : TRUE).template_name]
                                  .content,
                              resolved, rev), d.now)]]

render_templates(d, cache_ttl, env) ==
    LET RECURSIVE accounts(_, _)
        accounts(acc, groups) ==
            IF groups = <<>> THEN acc
            ELSE accounts(render_account(acc, Head(groups), cache_ttl, env), Tail(groups))
        written(acc) ==
            [acc EXCEPT !.disk = write_rendered(acc.disk, acc.resolved, env.rrev)]
    IN  written(accounts([disk |-> d, ok |-> TRUE, resolved |-> {}, invoked |-> <<>>,
                          warned |-> <<>>],
                         group_vars_by_account(d.config.inject_vars, env.rev)))

handle_env_injection(d, cache_ttl, env) ==
    LET RECURSIVE accounts(_, _)
        accounts(acc, groups) ==
            IF groups = <<>> THEN acc
            ELSE accounts(env_inject_account(acc, Head(groups), cache_ttl, env), Tail(groups))
        templated(acc) ==
            IF d.config.templated_files = {} THEN acc
            ELSE [acc EXCEPT !.disk = render_templates(acc.disk, cache_ttl, env).disk]
        start == [disk |-> d, ok |-> TRUE, output |-> <<>>, invoked |-> <<>>,
                  warned |-> <<>>]
    IN  IF d.config.inject_vars = {} THEN start
        ELSE templated(accounts(start, group_vars_by_account(d.config.inject_vars, env.rev)))

\* `template add <path>`; store_ok: confy::store succeeds
template_add_unchecked(d, path, rev, store_ok) ==
    LET names == InOrder(d.config.inject_vars, 1, rev)
        vars_comment ==
            IF names = <<>> THEN <<"# op-loader:", "No variables configured yet.">>
            ELSE <<"# op-loader:", "Available variables:">>
                 \o [i \in DOMAIN names |-> Placeholder(names[i].name)]
        added(target_path, template_name) ==
            IF target_path \notin DOMAIN d.files \/ d.files[target_path].type /= "file"
            THEN [disk |-> d, ok |-> FALSE, err |-> "File does not exist"]
            ELSE IF ~store_ok
            THEN [disk |-> [d EXCEPT !.templates_dir = TRUE,
                                     !.templates[template_name] =
                                         File(vars_comment \o <<"\n">> \o d.files[target_path].content,
                                              d.now)],
                  ok |-> FALSE, err |-> "Failed to save configuration"]
            ELSE [disk |-> [d EXCEPT !.templates_dir = TRUE,
                                     !.templates[template_name] =
                                         File(vars_comment \o <<"\n">> \o d.files[target_path].content,
                                              d.now),
                                     !.config.templated_files =
                                         @ \cup {[target |-> target_path,
                                                  template_name |-> template_name]}],
                  ok |-> TRUE, err |-> ""]
    IN  added(expand_path(d, path), path_to_template_name(expand_path(d, path)))

template_add(d, path, rev, store_ok) ==
    LET names == InOrder(d.config.inject_vars, 1, rev)
        vars_comment ==
            IF names = <<>> THEN <<"# op-loader:", "No variables configured yet.">>
            ELSE <<"# op-loader:", "Available variables:">>
                 \o [i \in DOMAIN names |-> Placeholder(names[i].name)]
        added(target_path, template_name) ==
            IF target_path \notin DOMAIN d.files \/ d.files[target_path].type /= "file"
            THEN [disk |-> d, ok |-> FALSE, err |-> "File does not exist"]
            ELSE IF \E t \in d.config.templated_files : t.target = target_path
            THEN [disk |-> d, ok |-> FALSE, err |-> "File is already managed as a template"]
            ELSE IF ~store_ok
            THEN [disk |-> [d EXCEPT !.templates_dir = TRUE,
                                     !.templates[template_name] =
                                         File(vars_comment \o <<"\n">> \o d.files[target_path].content,
                                              d.now)],
                  ok |-> FALSE, err |-> "Failed to save configuration"]
            ELSE [disk |-> [d EXCEPT !.templates_dir = TRUE,
                                     !.templates[template_name] =
                                         File(vars_comment \o <<"\n">> \o d.files[target_path].content,
                                              d.now),
                                     !.config.templated_files =
                                         @ \cup {[target |-> target_path,
                                                  template_name |-> template_name]}],
                  ok |-> TRUE, err |-> ""]
    IN  added(expand_path(d, path), path_to_template_name(expand_path(d, path)))

template_remove_needs_template(d, path, remove_ok, store_ok) ==
    LET removed(target_path) ==
            LET template_config == CHOOSE t \in d.config.templated_files :
                                       t.target = target_path
                deleted == [d EXCEPT !.templates[template_config.template_name] = NoFile]
            IN  IF d.templates[template_config.template_name].type /= "file" \/ ~remove_ok
                THEN [disk |-> d, ok |-> FALSE, err |-> "Failed to delete template"]
                ELSE IF ~store_ok
                THEN [disk |-> deleted, ok |-> FALSE, err |-> "Failed to save configuration"]
                ELSE [disk |-> [deleted EXCEPT !.config.templated_files =
                                                   @ \ {template_config}],
                      ok |-> TRUE, err |-> ""]
    IN  IF \A t \in d.config.templated_files : t.target /= expand_path(d, path)
        THEN [disk |-> d, ok |-> FALSE, err |-> "File is not managed as a template"]
        ELSE removed(expand_path(d, path))

\* `op-loader template remove <path>`: the template file is deleted before
\* the configuration is stored
template_remove(d, path, remove_ok, store_ok) ==
    LET removed(target_path) ==
            LET template_config == CHOOSE t \in d.config.templated_files :
                                       t.target = target_path
                deleted == [d EXCEPT !.templates[template_config.template_name] = NoFile]
            IN  IF d.templates[template_config.template_name].type = "file" /\ ~remove_ok
                THEN [disk |-> d, ok |-> FALSE, err |-> "Failed to delete template"]
                ELSE IF ~store_ok
                THEN [disk |-> deleted, ok |-> FALSE, err |-> "Failed to save configuration"]
                ELSE [disk |-> [deleted EXCEPT !.config.templated_files =
                                                   @ \ {template_config}],
                      ok |-> TRUE, err |-> ""]
    IN  IF \A t \in d.config.templated_files : t.target /= expand_path(d, path)
        THEN [disk |-> d, ok |-> FALSE, err |-> "File is not managed as a template"]
        ELSE removed(expand_path(d, path))

(***************************************************************************)
(* Startup (src/src/main.rs run_app): the event loop is entered only when  *)
(* every startup call succeeded.                                           *)
(***************************************************************************)
account_position(accounts, account_id) ==
    LET first(hits) == IF hits = {} THEN None ELSE CHOOSE i \in hits : \A j \in hits : i <= j
    IN  first({i \in 0..(Len(accounts) - 1) : Get(accounts, i).account_uuid = account_id})

run_app(accounts, config) ==
    LET with_account(b, account_idx) ==
            IF account_idx /= None
            THEN [b EXCEPT !.selected_account_idx = account_idx,
                           !.account_list_state = account_idx]
            ELSE IF b.accounts /= <<>>
            THEN [b EXCEPT !.selected_account_idx = 0, !.account_list_state = 0]
            ELSE b
        default_account(b) ==
            with_account(b, IF config.default_account_id = "" THEN None
                            ELSE account_position(b.accounts, config.default_account_id))
        with_vault(b, vault_idx) ==
            IF vault_idx = None THEN b
            ELSE [b EXCEPT !.selected_vault_idx = vault_idx, !.vault_list_state = vault_idx]
        default_vault(b) == with_vault(b, default_vault_idx(b))
        with_items(b) ==
            IF b.selected_account_idx /= None /\ b.selected_vault_idx /= None
            THEN load_vault_items(b, "ok").app ELSE b
        a0 == load_managed_vars([App_new EXCEPT !.config = config])
        a1 == default_account(load_accounts(a0, accounts, "ok").app)
        a2 == default_vault(load_vaults(a1, "ok").app)
        a3 == with_items(a2)
    IN  [a3 EXCEPT !.command_log = <<>>]

\* the configuration documents the model starts from
ConfigsOf(bindings, default_accounts, default_vaults) ==
    { [inject_vars |-> iv, default_account_id |-> da,
       default_vault_per_account |-> [x \in AccountIds |-> IF x = "a1" THEN dv ELSE ""]] :
        iv \in bindings, da \in default_accounts, dv \in default_vaults }

OneBinding == {[name |-> <<"G">>, account_id |-> "a1", op_reference |-> "r1"]}

InitOf(counts, configs) ==
    /\ \E n \in counts, config \in configs :
          app = run_app(SubSeq(WorldAccounts, 1, n), config)
    /\ last = [op |-> "run_app", cursor |-> None]
    /\ disk = Disk_new

Env0 == [o1 |-> "ok", o2 |-> "ok", store |-> TRUE, clip |-> TRUE]

\* handle_events: one key press, handled to the end; the loop ends on should_quit.
\* last names the branch of handle_key_press that ran and, for Up and Down, the
\* cursor it found.
Step(op, key, env) ==
    /\ ~app.should_quit
    /\ ~app.panicked
    /\ app' = handle_key_press([app EXCEPT !.command_log = <<>>, !.copied = <<>>], key, env)
    /\ last' = [op |-> op,
                cursor |-> IF op \in {"UpKey", "DownKey"}
                           THEN list_state(app, app.focused_panel) ELSE None]
    /\ UNCHANGED disk

Idle == app.modal.kind = "None" /\ ~app.search_active

BoundVars(a) ==
    \/ Cardinality(a.config.inject_vars) < MaxVars
    \/ \E b \in a.config.inject_vars : b.name = a.modal.env_var_name

EnvVarModalKeyOf(K) ==
    /\ app.modal.kind = "EnvVar"
    /\ \E key \in K, st \in BOOLEAN :
          /\ key.code = "Char" => Len(app.modal.env_var_name) < MaxNameLen
          /\ key.code = "Enter" => BoundVars(app)
          /\ Step("EnvVarModalKey", key, [Env0 EXCEPT !.store = st])

VarDeleteModalKey ==
    /\ app.modal.kind = "VarDeleteConfirm"
    /\ \E key \in Keys, st \in BOOLEAN :
          Step("VarDeleteModalKey", key, [Env0 EXCEPT !.store = st])

SearchKeyOf(K) ==
    /\ app.modal.kind = "None" /\ app.search_active
    /\ \E key \in K, o \in NavOutcomes :
          /\ key.code = "Char" => Len(app.search_query) < MaxQuery
          /\ Step("SearchKey", key, [Env0 EXCEPT !.o1 = o])

StartSearchKey ==
    /\ Idle /\ app.focused_panel \in {"VaultItemList", "VaultItemDetail"}
    /\ Step("StartSearchKey", CharKey("/"), Env0)

VarsActionKey ==
    /\ Idle /\ app.focused_panel = "VarsList"
    /\ \E key \in Keys, clip \in BOOLEAN :
          /\ VarsAction_from_key(key) /= ""
          /\ Step("VarsActionKey", key, [Env0 EXCEPT !.clip = clip])

FavoriteKey ==
    /\ Idle
    /\ \E st \in BOOLEAN, o1 \in NavOutcomes, o2 \in NavOutcomes :
          Step("FavoriteKey", CharKey("f"), [o1 |-> o1, o2 |-> o2, store |-> st, clip |-> TRUE])

QuitKey == Idle /\ Step("QuitKey", CharKey("q"), Env0)

PanelKeyOf(K) ==
    /\ Idle
    /\ \E key \in K :
          /\ NavAction_from_key(key) \in {"PanelZero", "PanelOne", "PanelTwo", "PanelFour", "PanelVars"}
          /\ Step("PanelKey", key, Env0)

UpKey ==
    /\ Idle
    /\ \E key \in Keys : NavAction_from_key(key) = "Up" /\ Step("UpKey", key, Env0)

DownKey ==
    /\ Idle
    /\ \E key \in Keys : NavAction_from_key(key) = "Down" /\ Step("DownKey", key, Env0)

SelectAccountKey ==
    /\ Idle /\ app.focused_panel = "AccountList"
    /\ \E o1 \in NavOutcomes, o2 \in NavOutcomes :
          Step("SelectAccountKey", KeyOf("Enter"), [Env0 EXCEPT !.o1 = o1, !.o2 = o2])

SelectVaultKeyOf(O) ==
    /\ Idle /\ app.focused_panel = "VaultList"
    /\ \E o1 \in O : Step("SelectVaultKey", KeyOf("Enter"), [Env0 EXCEPT !.o1 = o1])

SelectItemKeyOf(O) ==
    /\ Idle /\ app.focused_panel = "VaultItemList"
    /\ \E o1 \in O : Step("SelectItemKey", KeyOf("Enter"), [Env0 EXCEPT !.o1 = o1])

SelectFieldKey ==
    /\ Idle /\ app.focused_panel = "VaultItemDetail"
    /\ Step("SelectFieldKey", KeyOf("Enter"), Env0)

SelectVarKey ==
    /\ Idle /\ app.focused_panel = "VarsList"
    /\ Step("SelectVarKey", KeyOf("Enter"), Env0)

\* a key no branch of handle_key_press acts on
OtherKey ==
    /\ Idle
    /\ \E key \in Keys :
          /\ NavAction_from_key(key) = ""
          /\ ~(key.code = "Char" /\ key.ch = "f")
          /\ ~(key = CharKey("/") /\ app.focused_panel \in {"VaultItemList", "VaultItemDetail"})
          /\ ~(app.focused_panel = "VarsList" /\ VarsAction_from_key(key) /= "")
          /\ Step("OtherKey", key, Env0)

(***************************************************************************)
(* Spec: navigation over the whole world.  Every key in the idle mode but  *)
(* the favorite key; in search mode the characters of SearchChars; in the  *)
(* EnvVar modal the keys of ModalKeys (no Enter).  The document holds no   *)
(* binding, so the delete modal never opens; account a1 has the default   *)
(* vault v2 and account a2 has none.  Saving bindings, the delete modal   *)
(* and favorites are the subject of the other specifications.             *)
(***************************************************************************)
\* q and j are navigation shortcuts; g, j, q occur in titles
SearchChars == {"g", "j", "q"}

KeysWith(chars) == [code : SpecialCodes, ch : {""}] \cup [code : {"Char"}, ch : chars]

\* op lists one account or both: run_app returns before the first key when
\* one of its loads fails, and the loads of the start succeed here
Init == InitOf(1..Len(WorldAccounts), ConfigsOf({{}}, {""}, {"v2"}))

\* g is accepted into the name, the space is rejected
ModalKeys == KeysWith({"g", " "}) \ {KeyOf("Enter")}

EnvVarModalKey == EnvVarModalKeyOf(ModalKeys)

SearchKey == SearchKeyOf(KeysWith(SearchChars))

PanelKey == PanelKeyOf(Keys)

SelectVaultKey == SelectVaultKeyOf(NavOutcomes)

SelectItemKey == SelectItemKeyOf(NavOutcomes)

Next ==
    \/ EnvVarModalKey
    \/ SearchKey
    \/ StartSearchKey
    \/ VarsActionKey
    \/ QuitKey
    \/ PanelKey
    \/ UpKey
    \/ DownKey
    \/ SelectAccountKey
    \/ SelectVaultKey
    \/ SelectItemKey
    \/ SelectFieldKey
    \/ SelectVarKey
    \/ OtherKey

Spec == Init /\ [][Next]_vars

(***************************************************************************)
(* SpecVars: the two modals and the managed bindings, over one account.    *)
(* The EnvVar modal takes Enter and the names Q and 1; the delete modal    *)
(* takes every key; the document starts empty or with one binding, and     *)
(* every store may fail.  The committed vault stays the default vault v2.  *)
(***************************************************************************)
VarsModalKeys == KeysWith({"q", "1", " "})

VarsPanelKeys == {CharKey("2"), CharKey("3"), CharKey("v")}

InitVars == InitOf({1}, ConfigsOf({{}, OneBinding}, {""}, {"v2"}))

EnvVarModalSaveKey == EnvVarModalKeyOf(VarsModalKeys)

VarsPanelKey == PanelKeyOf(VarsPanelKeys)

VarsSelectItemKey == SelectItemKeyOf({"ok"})

NextVars ==
    \/ EnvVarModalSaveKey
    \/ VarDeleteModalKey
    \/ VarsActionKey
    \/ VarsPanelKey
    \/ UpKey
    \/ DownKey
    \/ VarsSelectItemKey
    \/ SelectFieldKey
    \/ SelectVarKey
    \/ QuitKey

SpecVars == InitVars /\ [][NextVars]_vars

(***************************************************************************)
(* SpecFav: the favorite key on the account and vault panels, over both    *)
(* accounts, starting with no default; every store and every load may      *)
(* fail.                                                                   *)
(***************************************************************************)
FavPanelKeys == {CharKey("0"), CharKey("1")}

InitFav == InitOf({Len(WorldAccounts)}, ConfigsOf({{}}, {""}, {""}))

FavPanelKey == PanelKeyOf(FavPanelKeys)

NextFav ==
    \/ FavoriteKey
    \/ FavPanelKey
    \/ UpKey
    \/ DownKey
    \/ SelectAccountKey
    \/ SelectVaultKey

SpecFav == InitFav /\ [][NextFav]_vars

(***************************************************************************)
(* SpecFilter: update_filtered_items as the tests of src/src/app.rs drive  *)
(* it: a fresh App is given an item list and a query, with the item cursor *)
(* anywhere, and the filter is applied once.                               *)
(***************************************************************************)
MaxItems == 3

MaxFilterQuery == 2

FilterTitles == {<<"G", "j">>, <<"j">>, <<"q", "g">>}

FilterChars == {"g", "G", "j", "k"}

SeqsUpTo(S, n) == UNION {[1..k -> S] : k \in 0..n}

ItemIdOf(k) == <<"i1", "i2", "i3", "i4">>[k]

make_items(titles) == [k \in 1..Len(titles) |-> [id |-> ItemIdOf(k), title |-> titles[k]]]

InitFilter ==
    /\ \E titles \in SeqsUpTo(FilterTitles, MaxItems),
          query \in SeqsUpTo(FilterChars, MaxFilterQuery),
          cursor \in {None, 0, 1} :
          app = [App_new EXCEPT !.vault_items = make_items(titles),
                                !.search_query = query,
                                !.vault_item_list_state = cursor]
    /\ last = [op |-> "new", cursor |-> None]
    /\ disk = Disk_new

Refilter ==
    /\ last.op = "new"
    /\ app' = update_filtered_items(app)
    /\ last' = [op |-> "update_filtered_items", cursor |-> app.vault_item_list_state]
    /\ UNCHANGED disk

NextFilter == Refilter

SpecFilter == InitFilter /\ [][NextFilter]_vars

(***************************************************************************)
(* SpecLoad: the Entity Cache driven as its callers drive it, one call at  *)
(* a time from a fresh App: the four loaders under every outcome of `op`,  *)
(* and the assignments by which run_app and the Select handlers commit an  *)
(* account or a vault of the loaded lists.                                 *)
(***************************************************************************)
ItemIds == {"i1", "i3"}

InitLoad ==
    /\ app = App_new
    /\ last = [op |-> "App::new", cursor |-> None]
    /\ disk = Disk_new

\* in the order: load_accounts, load_vaults, load_vault_items,
\* load_item_details, an account committed, a vault committed
NextLoad ==
    \/ /\ ~app.panicked
       /\ \E outcome \in Outcomes :
             app' = load_accounts([app EXCEPT !.command_log = <<>>],
                                  WorldAccounts, outcome).app
       /\ last' = [op |-> "load_accounts", cursor |-> None]
       /\ UNCHANGED disk
    \/ /\ ~app.panicked
       /\ \E outcome \in Outcomes :
             app' = load_vaults([app EXCEPT !.command_log = <<>>], outcome).app
       /\ last' = [op |-> "load_vaults", cursor |-> None]
       /\ UNCHANGED disk
    \/ /\ ~app.panicked
       /\ \E outcome \in Outcomes :
             app' = load_vault_items([app EXCEPT !.command_log = <<>>], outcome).app
       /\ last' = [op |-> "load_vault_items", cursor |-> None]
       /\ UNCHANGED disk
    \/ /\ ~app.panicked
       /\ \E item_id \in ItemIds, outcome \in Outcomes :
             app' = load_item_details([app EXCEPT !.command_log = <<>>],
                                      item_id, outcome).app
       /\ last' = [op |-> "load_item_details", cursor |-> None]
       /\ UNCHANGED disk
    \/ /\ ~app.panicked
       /\ \E idx \in 0..(Len(app.accounts) - 1) :
             app' = [app EXCEPT !.selected_account_idx = idx, !.account_list_state = idx]
       /\ last' = [op |-> "commit_account", cursor |-> None]
       /\ UNCHANGED disk
    \/ /\ ~app.panicked
       /\ \E idx \in 0..(Len(app.vaults) - 1) :
             app' = [app EXCEPT !.selected_vault_idx = idx, !.vault_list_state = idx]
       /\ last' = [op |-> "commit_vault", cursor |-> None]
       /\ UNCHANGED disk

SpecLoad == InitLoad /\ [][NextLoad]_vars

(***************************************************************************)
(* SpecLog: the Command Log on its own (src/src/command_log.rs), fed past  *)
(* its capacity.  A success carries the number of entries logged before it *)
(* as its count, so that every entry tells its place in the logging order; *)
(* last.logged is the history of every entry ever logged.                  *)
(***************************************************************************)
MaxLogged == 53

MaxFailures == 1

saturating_sub(x, y) == IF x >= y THEN x - y ELSE 0

recent(entries, n) ==
    SubSeq(entries, saturating_sub(Len(entries), n) + 1, Len(entries))

InitLog ==
    /\ app = App_new
    /\ last = [op |-> "CommandLog::new", cursor |-> None, logged |-> <<>>]
    /\ disk = Disk_new

\* log_success, log_failure
NextLog ==
    \/ /\ Len(last.logged) < MaxLogged
       /\ app' = log_success(app, "op item list", Len(last.logged))
       /\ last' = [op |-> "log_success", cursor |-> None,
                   logged |-> Append(last.logged, Last(app'.command_log))]
       /\ UNCHANGED disk
    \/ /\ Len(last.logged) < MaxLogged
       /\ Cardinality({k \in 1..Len(last.logged) : ~last.logged[k].success}) < MaxFailures
       /\ app' = log_failure(app, "op item list")
       /\ last' = [op |-> "log_failure", cursor |-> None,
                   logged |-> Append(last.logged, Last(app'.command_log))]
       /\ UNCHANGED disk

SpecLog == InitLog /\ [][NextLog]_vars

(***************************************************************************)
(* SpecCache: the Result Cache on disk under the commands that touch it:   *)
(* a cache write (of env injection or template rendering), `cache clear`   *)
(* for one account or for all, the clock moving (forwards, or backwards    *)
(* when it is set), and other programs leaving a file or a directory in    *)
(* the cache directory.                                                    *)
(***************************************************************************)
MaxNow == 1

MaxTtl == 1

CacheContents == {<<<<"X">>>>, <<<<"X">>, <<"Y">>>>}

WriteFaults == {"none", "open", "perm", "write"}

ReadFaults == {"none", "stat", "mtime", "read"}

\* at most one path is refused in a call
FailSets == {{}} \cup {{p} : p \in CachePaths}

InitCache ==
    /\ app = App_new
    /\ last = [op |-> "cli", cursor |-> None]
    /\ disk = Disk_new

\* a cache write, `cache clear --account`, `cache clear`, the clock, and
\* another program's file and directory
NextCache ==
    \/ /\ \E id \in AccountArgs, k \in 1..2, output \in CacheContents, fault \in WriteFaults :
             disk' = write_cached_output(disk, id, CacheKinds[k], output, fault).disk
       /\ UNCHANGED <<app, last>>
    \/ /\ \E id \in AccountArgs, fails \in FailSets :
             disk' = remove_cache_for_account(disk, id, fails).disk
       /\ UNCHANGED <<app, last>>
    \/ /\ \E fails \in FailSets : disk' = clear_all_caches(disk, fails).disk
       /\ UNCHANGED <<app, last>>
    \/ /\ \E t \in 0..MaxNow : disk' = [disk EXCEPT !.now = t]
       /\ UNCHANGED <<app, last>>
    \/ /\ disk' = [disk EXCEPT !.cache[<<"extra-file", <<>>, ".txt">>] =
                                    File(<<<<"X">>>>, disk.now)]
       /\ UNCHANGED <<app, last>>
    \/ /\ disk' = [disk EXCEPT !.cache[<<"nested", <<>>, "">>] =
                                    [type |-> "dir", content |-> <<>>, mtime |-> 0]]
       /\ UNCHANGED <<app, last>>

SpecCache == InitCache /\ [][NextCache]_vars

(***************************************************************************)
(* SpecInject: `op-loader env` with and without --cache-ttl and `op-loader *)
(* template render`, run again and again over one configuration while the  *)
(* clock moves.  The account ids of the bindings are account_uuid values   *)
(* as the TUI stores them, which sanitize_account_id keeps apart.  One     *)
(* file, ~/npmrc, may be managed as a template.                            *)
(***************************************************************************)
InjectVars ==
    { {[name |-> "A", account_id |-> <<"a", "_">>, op_reference |-> "r1"],
       [name |-> "C", account_id |-> <<"a", "_">>, op_reference |-> "r3"],
       [name |-> "B", account_id |-> <<"k">>, op_reference |-> "r2"]},
      {[name |-> "A", account_id |-> <<"a", "_">>, op_reference |-> "r1"],
       [name |-> "B", account_id |-> <<"k">>, op_reference |-> "r1"]} }

\* None: no --cache-ttl
Ttls == {None} \cup 0..MaxTtl

InjectEnvs ==
    [inject : [{<<"a", "_">>, <<"k">>} -> {"ok", "nonzero"}],
     rfault : {"none", "stat"}, wfault : {"none", "open"}, rev : BOOLEAN, rrev : BOOLEAN]

InitInject ==
    /\ app = App_new
    /\ last = [op |-> "cli", cursor |-> None]
    /\ \E inject_vars \in InjectVars, managed \in BOOLEAN :
          disk = IF managed
                 THEN template_add(
                          [Disk_new EXCEPT !.config.inject_vars = inject_vars,
                                           !.files[<<"a", "npmrc">>] =
                                               File(<<"token=", "{{A}}", "{{B}}", "\n">>, 0)],
                          <<"~", "npmrc">>, FALSE, TRUE).disk
                 ELSE [Disk_new EXCEPT !.config.inject_vars = inject_vars]

\* `op-loader env`, `op-loader template render`, the clock
NextInject ==
    \/ /\ \E cache_ttl \in Ttls, env \in InjectEnvs :
             disk' = handle_env_injection(disk, cache_ttl, env).disk
       /\ UNCHANGED <<app, last>>
    \/ /\ \E env \in InjectEnvs : disk' = render_templates(disk, None, env).disk
       /\ UNCHANGED <<app, last>>
    \/ /\ \E t \in 0..MaxNow : disk' = [disk EXCEPT !.now = t]
       /\ UNCHANGED <<app, last>>

SpecInject == InitInject /\ [][NextInject]_vars

\* the paths given on the command line
TargetArgs == TargetPaths \cup {<<"~", "npmrc">>, <<".", "npmrc">>}

TargetContents == {<<"token=", "{{A}}", "\n">>, <<"x", "\n", "# op-loader:", "y">>}

InitTemplate ==
    /\ app = App_new
    /\ last = [op |-> "cli", cursor |-> None]
    /\ \E inject_vars \in {{}} \cup InjectVars :
          disk = [Disk_new EXCEPT !.config.inject_vars = inject_vars]

\* `op-loader template add`, `op-loader template remove`, and what the user
\* does to the target files and to the templates directory
NextTemplate ==
    \/ /\ \E path \in TargetArgs, rev \in BOOLEAN, store_ok \in BOOLEAN :
             disk' = template_add(disk, path, rev, store_ok).disk
       /\ UNCHANGED <<app, last>>
    \/ /\ \E path \in TargetArgs, remove_ok \in BOOLEAN, store_ok \in BOOLEAN :
             disk' = template_remove(disk, path, remove_ok, store_ok).disk
       /\ UNCHANGED <<app, last>>
    \/ /\ \E p \in TargetPaths, content \in TargetContents :
             disk' = [disk EXCEPT !.files[p] = File(content, disk.now)]
       /\ UNCHANGED <<app, last>>
    \/ /\ \E p \in TargetPaths : disk' = [disk EXCEPT !.files[p] = NoFile]
       /\ UNCHANGED <<app, last>>
    \/ /\ \E n \in DOMAIN disk.templates : disk' = [disk EXCEPT !.templates[n] = NoFile]
       /\ UNCHANGED <<app, last>>

SpecTemplate == InitTemplate /\ [][NextTemplate]_vars

\* the template texts and the tables of resolved values rendering is given
RenderTemplates ==
    { <<>>,
      <<"# op-loader:", "{{A}}", "\n", "token=", "{{A}}", "\n">>,
      <<"# c", "\n", "{{A}}", "{{B}}", "{{A}}">>,
      <<"x", "\n", "\n">>,
      <<"# op-loader:", "\n">>,
      <<"{{C}}", "\n", "# op-loader:", "y">>,
      <<"\n", "{{B}}", "{{A}}", "\n">> }

RenderValues == {"abc", "{{A}}", "{{B}}"}

RenderTables ==
    {{}} \cup {{<<"A", a>>} : a \in RenderValues}
         \cup {{<<"A", a>>, <<"B", b>>} : a \in RenderValues, b \in RenderValues}

\* one managed target; last.resolved is the table the run resolved
InitRender ==
    /\ app = App_new
    /\ \E content \in RenderTemplates, resolved \in RenderTables :
          /\ last = [op |-> "cli", cursor |-> None, resolved |-> resolved]
          /\ disk = [Disk_new EXCEPT
                        !.templates_dir = TRUE,
                        !.templates[<<"npmrc", ".tmpl">>] = File(content, 0),
                        !.config.templated_files =
                            {[target |-> <<"a", "npmrc">>,
                              template_name |-> <<"npmrc", ".tmpl">>]}]

\* the second loop of `op-loader template render`, the user's edit of the
\* template, a change of the secrets
NextRender ==
    \/ /\ \E rev \in BOOLEAN : disk' = write_rendered(disk, last.resolved, rev)
       /\ UNCHANGED <<app, last>>
    \/ /\ \E content \in RenderTemplates :
             disk' = [disk EXCEPT !.templates[<<"npmrc", ".tmpl">>] = File(content, 0)]
       /\ UNCHANGED <<app, last>>
    \/ /\ \E resolved \in RenderTables : last' = [last EXCEPT !.resolved = resolved]
       /\ UNCHANGED <<app, disk>>

SpecRender == InitRender /\ [][NextRender]_vars

(***************************************************************************)
(* SpecBind: SpecInject's runs of `op-loader env`, with the bindings        *)
(* changing between the runs: the TUI stores a configuration in which a    *)
(* binding was added, removed or pointed at another field.                 *)
(***************************************************************************)
\* the runs in which every `op inject` call succeeds and no cache access is
\* refused
HealthyEnvs ==
    {env \in InjectEnvs : /\ \A id \in DOMAIN env.inject : env.inject[id] = "ok"
                          /\ env.rfault = "none"
                          /\ env.wfault = "none"}

NextBind ==
    \/ /\ \E cache_ttl \in Ttls, env \in HealthyEnvs :
             disk' = handle_env_injection(disk, cache_ttl, env).disk
       /\ UNCHANGED <<app, last>>
    \/ /\ \E inject_vars \in InjectVars :
             disk' = [disk EXCEPT !.config.inject_vars = inject_vars]
       /\ UNCHANGED <<app, last>>
    \/ /\ \E t \in 0..MaxNow : disk' = [disk EXCEPT !.now = t]
       /\ UNCHANGED <<app, last>>

SpecBind == InitInject /\ [][NextBind]_vars

(***************************************************************************)
(* SpecStart: every start of run_app that reaches the event loop.  op      *)
(* lists no account, one or both; account a1 has the default vault v2 or   *)
(* none.  With no account listed nothing is committed and `op vault list`  *)
(* answers for the CLI's own account.  The keys are those of Spec with one *)
(* search character.                                                       *)
(***************************************************************************)
InitStart == InitOf(0..Len(WorldAccounts), ConfigsOf({{}}, {""}, {"", "v2"}))

StartKeys == KeysWith({"g"})

NextStart ==
    \/ EnvVarModalKeyOf(StartKeys \ {KeyOf("Enter")})
    \/ SearchKeyOf(StartKeys)
    \/ StartSearchKey
    \/ VarsActionKey
    \/ QuitKey
    \/ PanelKeyOf(Keys)
    \/ UpKey
    \/ DownKey
    \/ SelectAccountKey
    \/ SelectVaultKeyOf(NavOutcomes)
    \/ SelectItemKeyOf(NavOutcomes)
    \/ SelectFieldKey
    \/ SelectVarKey
    \/ OtherKey

SpecStart == InitStart /\ [][NextStart]_vars

(***************************************************************************)
(* SpecWrite: two processes run write_cached_output for one account and    *)
(* kind at the same time, step by step, with no lock between them.         *)
(* last.writers[p] is the position of process p and the output it holds.   *)
(***************************************************************************)
WriterOutputs == {<<<<"Z">>>>, <<<<"X">>, <<"Y">>>>}

WritePath == cache_path_for_account(<<"k">>, "EnvInject")

InitWrite ==
    /\ app = App_new
    /\ \E first \in WriterOutputs, second \in WriterOutputs :
          last = [op |-> "cli", cursor |-> None,
                  writers |-> <<[pc |-> "start", output |-> first],
                                [pc |-> "start", output |-> second]>>]
    /\ \E before \in {<<>>} \cup CacheContents, t \in 0..MaxNow :
          disk = [Disk_new EXCEPT
                     !.now = t,
                     !.cache[WritePath] =
                         IF before = <<>> THEN @
                         ELSE [type |-> "file", content |-> before, mtime |-> 0,
                               mode |-> "0600"]]

\* a process opens the file, sets its mode (or is refused and gives up),
\* writes its output
NextWrite ==
    \/ /\ \E p \in 1..2 :
             /\ last.writers[p].pc = "start"
             /\ disk' = open_truncate(disk, WritePath)
             /\ last' = [last EXCEPT !.writers[p].pc = "opened"]
       /\ UNCHANGED app
    \/ /\ \E p \in 1..2 :
             /\ last.writers[p].pc = "opened"
             /\ disk' = set_permissions(disk, WritePath)
             /\ last' = [last EXCEPT !.writers[p].pc = "restricted"]
       /\ UNCHANGED app
    \/ /\ \E p \in 1..2 :
             /\ last.writers[p].pc = "opened"
             /\ last' = [last EXCEPT !.writers[p].pc = "failed"]
       /\ UNCHANGED <<app, disk>>
    \/ /\ \E p \in 1..2 :
             /\ last.writers[p].pc = "restricted"
             /\ disk' = write_all(disk, WritePath, last.writers[p].output)
             /\ last' = [last EXCEPT !.writers[p].pc = "done"]
       /\ UNCHANGED app

SpecWrite == InitWrite /\ [][NextWrite]_vars

(***************************************************************************)
(* The claims.                                                             *)
(***************************************************************************)
\* the ids of a list of vaults or items
Ids(list) == {list[k].id : k \in 1..Len(list)}

\* C1: after Select on the Account panel the committed vault, the committed
\* item and the details are None, the query is empty and search is inactive,
\* whatever the prior state, the configuration and the outcome of the reload.
C1_AccountSelectClearsAll ==
    last.op = "SelectAccountKey" =>
        /\ app.selected_vault_idx = None
        /\ app.selected_vault_item_idx = None
        /\ ~app.selected_item_details.some
        /\ app.search_query = <<>>
        /\ ~app.search_active

\* C2: a committed vault index designates an element of the vault list, and
\* that list was loaded for the account the committed account index
\* designates, also after a failed external call.
C2_VaultOfCommittedAccount ==
    app.selected_vault_idx /= None =>
        /\ InRange(app.vaults, app.selected_vault_idx)
        /\ app.selected_account_idx /= None
        /\ app.vaults_for = selected_account(app)

\* C3: the item list and the committed item belong to the committed vault,
\* and the details held were fetched for an item of the committed vault.
C3_ItemsOfCommittedVault ==
    /\ app.vault_items /= <<>> =>
          /\ app.selected_vault_idx /= None
          /\ app.items_for = <<selected_account(app), selected_vault(app)>>
    /\ app.selected_vault_item_idx /= None /\ app.filtered_item_indices /= <<>> =>
          app.items_for = <<selected_account(app), selected_vault(app)>>
    /\ app.selected_item_details.some =>
          /\ app.details_for[2] = selected_vault(app)
          /\ app.details_for[3] \in Ids(WorldItems(selected_vault(app)))

\* C4: Select on the Vault panel with the cursor at i commits i, clears the
\* committed item, the details and the search, leaves the item list holding
\* the items of vault i of the committed account, and focuses the Item panel.
C4_VaultSelectLoadsItems ==
    [][SelectVaultKey /\ app.vault_list_state /= None /\ app.selected_account_idx /= None
       /\ InRange(app.vaults, app.vault_list_state) =>
          /\ app'.selected_vault_idx = app.vault_list_state
          /\ app'.selected_vault_item_idx = None
          /\ ~app'.selected_item_details.some
          /\ app'.search_query = <<>> /\ ~app'.search_active
          /\ app'.vault_items = WorldItems(Get(app.vaults, app.vault_list_state).id)
          /\ app'.items_for = <<selected_account(app), Get(app.vaults, app.vault_list_state).id>>
          /\ app'.focused_panel = "VaultItemList"]_vars

\* C5: for each of the five lists the cursor is None when the list is empty
\* and below the length of the list otherwise.
CursorInRange(a, nav) ==
    IF nav_len(a, nav) = 0 THEN list_state(a, nav) = None
    ELSE list_state(a, nav) = None \/ list_state(a, nav) < nav_len(a, nav)

C5_CursorsInRange ==
    \A nav \in {"AccountList", "VaultList", "VaultItemList", "VaultItemDetail", "VarsList"} :
        CursorInRange(app, nav)

\* what C6 says a modal key leaves alone, but for the managed-vars cursor
NavigationFrame(a, b) ==
    /\ b.focused_panel = a.focused_panel
    /\ b.account_list_state = a.account_list_state
    /\ b.vault_list_state = a.vault_list_state
    /\ b.vault_item_list_state = a.vault_item_list_state
    /\ b.item_detail_list_state = a.item_detail_list_state
    /\ b.selected_account_idx = a.selected_account_idx
    /\ b.selected_vault_idx = a.selected_vault_idx
    /\ b.selected_vault_item_idx = a.selected_vault_item_idx
    /\ b.selected_field_idx = a.selected_field_idx
    /\ b.search_query = a.search_query
    /\ b.search_active = a.search_active
    /\ b.should_quit = a.should_quit

ModalKinds == {"None", "EnvVar", "VarDeleteConfirm"}

\* C6: at most one modal is active, and while a modal is active no key
\* changes the focused panel, any of the five list cursors, any committed
\* index, the search query and flag, or the quit flag.
C6_ModalFreezesAll ==
    [][/\ app'.modal.kind \in ModalKinds
       /\ app.modal.kind /= "None" =>
             /\ NavigationFrame(app, app')
             /\ app'.managed_vars_list_state = app.managed_vars_list_state]_vars

\* C6 as the code has it: the modal is one value of three kinds, and while it
\* is open no key changes the focused panel, the account, vault, item or
\* detail cursor, a committed index, the search or the quit flag; the
\* managed-vars cursor changes only with the key that closes the modal.
C6_ModalFreezesNavigation ==
    [][/\ app'.modal.kind \in ModalKinds
       /\ app.modal.kind /= "None" =>
             /\ NavigationFrame(app, app')
             /\ app'.managed_vars_list_state /= app.managed_vars_list_state =>
                   app'.modal.kind = "None"]_vars

\* the panel key 1 typed into the EnvVar modal went into the name
C6_Witness ==
    /\ last.op = "EnvVarModalKey"
    /\ app.modal.kind = "EnvVar"
    /\ app.modal.env_var_name = <<"1">>
    /\ app.focused_panel = "VaultItemDetail"

ShortcutChars == {"q", "j", "k", "f", "v", "0", "1", "2", "3", "/"}

AllEnvs == [o1 : NavOutcomes, o2 : NavOutcomes, store : BOOLEAN, clip : BOOLEAN]

\* a is in search mode and b is a with c typed into the query and re-filtered,
\* nothing quit, no cursor of another list moved, no favorite saved, same panel
TypedIntoQuery(a, b, c) ==
    /\ b.search_query = Append(a.search_query, c)
    /\ b.filtered_item_indices = filter_indices(a.vault_items, b.search_query)
    /\ b.vault_item_list_state = (IF b.filtered_item_indices = <<>> THEN None ELSE 0)
    /\ b.search_active
    /\ b.should_quit = a.should_quit
    /\ b.focused_panel = a.focused_panel
    /\ b.config = a.config
    /\ b.modal = a.modal
    /\ b.account_list_state = a.account_list_state
    /\ b.vault_list_state = a.vault_list_state
    /\ b.item_detail_list_state = a.item_detail_list_state
    /\ b.managed_vars_list_state = a.managed_vars_list_state
    /\ b.selected_account_idx = a.selected_account_idx
    /\ b.selected_vault_idx = a.selected_vault_idx

\* C7: the modal takes a key before search and search before the panels: in
\* search mode with no modal open a shortcut character goes into the query,
\* which is filtered again, and nothing quits, no other cursor moves, no
\* favorite is saved and the panel stays; with a modal open the search and
\* the panel see no key; the quit flag is set only with no modal open and
\* search inactive.
C7_ModalThenSearchThenPanel ==
    /\ app.modal.kind = "None" /\ app.search_active =>
          \A c \in ShortcutChars, env \in AllEnvs :
              TypedIntoQuery(app, handle_key_press(app, CharKey(c), env), c)
    /\ app.modal.kind /= "None" =>
          \A key \in Keys, env \in AllEnvs :
              /\ handle_key_press(app, key, env).search_query = app.search_query
              /\ handle_key_press(app, key, env).search_active = app.search_active
              /\ handle_key_press(app, key, env).focused_panel = app.focused_panel
    /\ app.modal.kind /= "None" \/ app.search_active =>
          \A key \in Keys, env \in AllEnvs :
              handle_key_press(app, key, env).should_quit = app.should_quit
    /\ app.should_quit => last.op = "QuitKey"

\* q typed in search mode is in the query and the program runs on
C7_Witness ==
    /\ last.op = "SearchKey"
    /\ app.search_active
    /\ app.search_query = <<"q">>
    /\ ~app.should_quit

UpDownKeys == {KeyOf("Up"), KeyOf("Down"), CharKey("k"), CharKey("j")}

IsUp(key) == key \in {KeyOf("Up"), CharKey("k")}

\* the cursor one position from cur in a list of len entries, wrapping
Wrapped(key, cur, len) ==
    IF IsUp(key) THEN (IF cur = 0 THEN len - 1 ELSE cur - 1)
    ELSE (IF cur = len - 1 THEN 0 ELSE cur + 1)

\* C8: with no modal open and search inactive, Up and Down leave the state as
\* it is when the focused list is empty, and otherwise move the focused
\* list's cursor from an index of the list to the next one, wrapping at both
\* ends, and change nothing else.
C8_UpDownWrap ==
    app.modal.kind = "None" /\ ~app.search_active =>
        \A key \in UpDownKeys, env \in AllEnvs :
            /\ nav_len(app, app.focused_panel) = 0 =>
                  handle_key_press(app, key, env) = app
            /\ nav_len(app, app.focused_panel) > 0
               /\ list_state(app, app.focused_panel) \in 0..(nav_len(app, app.focused_panel) - 1) =>
                  handle_key_press(app, key, env) =
                      select(app, app.focused_panel,
                             Wrapped(key, list_state(app, app.focused_panel),
                                     nav_len(app, app.focused_panel)))

\* Up from index 0 of a list of two or more went to the last index
C8_Witness ==
    /\ last.op = "UpKey"
    /\ last.cursor = 0
    /\ nav_len(app, app.focused_panel) >= 2
    /\ list_state(app, app.focused_panel) = nav_len(app, app.focused_panel) - 1

\* C9: with an empty query update_filtered_items leaves the indices 0..n-1 of
\* the n items in their order, and the item cursor at 0 when n > 0.
C9_EmptyQueryKeepsAll ==
    last.op = "update_filtered_items" /\ app.search_query = <<>> =>
        /\ Len(app.filtered_item_indices) = Len(app.vault_items)
        /\ \A i \in 1..Len(app.vault_items) : app.filtered_item_indices[i] = i - 1
        /\ app.vault_items /= <<>> => app.vault_item_list_state = 0

\* three items under an empty query, the cursor brought back from 1 to 0
C9_Witness ==
    /\ last.op = "update_filtered_items"
    /\ last.cursor = 1
    /\ app.search_query = <<>>
    /\ app.filtered_item_indices = <<0, 1, 2>>
    /\ app.vault_item_list_state = 0

\* the characters of p occur in t in their order, upper and lower case taken
\* as one unless p holds an upper-case letter
OccursIn(p, t) ==
    \E f \in [1..Len(p) -> 1..Len(t)] :
        /\ \A i \in 1..Len(p) : CharEq(t[f[i]], p[i], ~HasUpper(p))
        /\ \A i \in 1..(Len(p) - 1) : f[i] < f[i + 1]

NoTitleMatches(a) ==
    \A i \in 1..Len(a.vault_items) : ~OccursIn(a.search_query, a.vault_items[i].title)

\* C10: when the query matches no title, also when there is no item at all,
\* update_filtered_items leaves no index and the item cursor at None.
C10_NoMatchEmpties ==
    last.op = "update_filtered_items" /\ NoTitleMatches(app) =>
        /\ app.filtered_item_indices = <<>>
        /\ app.vault_item_list_state = None

\* a query over two items that matches neither, the cursor taken from 0 to None
C10_Witness ==
    /\ last.op = "update_filtered_items"
    /\ last.cursor = 0
    /\ app.search_query /= <<>>
    /\ Len(app.vault_items) = 2
    /\ NoTitleMatches(app)
    /\ app.filtered_item_indices = <<>>
    /\ app.vault_item_list_state = None

\* the score the matcher gives the title of the item at index i
ScoreOf(a, i) == fuzzy_match(Get(a.vault_items, i).title, a.search_query).score

\* C11: with a non-empty query update_filtered_items leaves indices of the
\* item list, none twice, those and only those of the items whose title
\* matches, a higher score first and equal scores in list order, and the item
\* cursor at 0, or at None when no index is left.
C11_FilterSortedSubset ==
    last.op = "update_filtered_items" /\ app.search_query /= <<>> =>
        LET f == app.filtered_item_indices
        IN  /\ \A p \in 1..Len(f) : f[p] \in 0..(Len(app.vault_items) - 1)
            /\ \A p, q \in 1..Len(f) : p /= q => f[p] /= f[q]
            /\ {f[p] : p \in 1..Len(f)} =
                  {i \in 0..(Len(app.vault_items) - 1) :
                      OccursIn(app.search_query, Get(app.vault_items, i).title)}
            /\ \A p, q \in 1..Len(f) :
                  p < q => \/ ScoreOf(app, f[p]) > ScoreOf(app, f[q])
                           \/ ScoreOf(app, f[p]) = ScoreOf(app, f[q]) /\ f[p] < f[q]
            /\ app.vault_item_list_state = (IF f = <<>> THEN None ELSE 0)

\* three items, the first left out, the better match of the other two first
C11_Witness ==
    /\ last.op = "update_filtered_items"
    /\ last.cursor = 1
    /\ app.search_query = <<"j">>
    /\ Len(app.vault_items) = 3
    /\ app.filtered_item_indices = <<2, 1>>
    /\ app.vault_item_list_state = 0

RefilterKeys == {KeyOf("Esc"), KeyOf("Backspace")} \cup [code : {"Char"}, ch : Chars]

NoItemCommitted(a) == a.selected_vault_item_idx = None /\ ~a.selected_item_details.some

\* C12: update_filtered_items leaves no committed item and no details,
\* whatever the query and the selection before it: applied to any state, on a
\* character, Backspace and Escape typed in search mode, and after Select on
\* the account and the vault panel.
C12_RefilterClearsItem ==
    /\ NoItemCommitted(update_filtered_items(app))
    /\ app.modal.kind = "None" /\ app.search_active =>
          \A key \in RefilterKeys, env \in AllEnvs :
              NoItemCommitted(handle_key_press(app, key, env))
    /\ last.op \in {"SelectAccountKey", "SelectVaultKey"} => NoItemCommitted(app)

\* a character typed into a search begun on the detail panel, where the
\* details of a committed item had been shown
C12_Witness ==
    /\ last.op = "SearchKey"
    /\ app.search_active
    /\ app.search_query /= <<>>
    /\ app.focused_panel = "VaultItemDetail"
    /\ app.item_detail_list_state = 0
    /\ NoItemCommitted(app)

\* a with search off and the item panel focused: where a Select on the item
\* panel starts from the lists, the cursor and the query of a
OnItemPanel(a) == [a EXCEPT !.search_active = FALSE, !.focused_panel = "VaultItemList"]

\* b, reached from a by Enter in search mode, against c, reached by Select on
\* the item panel: search is off, the commit, the fetch, the detail cursor and
\* the error are those of c, the query and the filtered list those of a
SelectedAs(a, b, c) ==
    /\ ~b.search_active
    /\ b.selected_vault_item_idx = c.selected_vault_item_idx
    /\ b.selected_item_details = c.selected_item_details
    /\ b.details_for = c.details_for
    /\ b.item_detail_list_state = c.item_detail_list_state
    /\ b.selected_field_idx = c.selected_field_idx
    /\ b.error_message = c.error_message
    /\ b.command_log = c.command_log
    /\ b.search_query = a.search_query
    /\ b.filtered_item_indices = a.filtered_item_indices
    /\ b.vault_items = a.vault_items

\* C13: Enter in search mode leaves search and gives the committed item, the
\* details fetched, the detail cursor, the focus and the error message that
\* Select on the item panel gives from the same lists, cursor and query, and
\* keeps the query and the filtered list.
C13_SearchEnterIsSelect ==
    app.modal.kind = "None" /\ app.search_active =>
        \A env \in AllEnvs :
            /\ SelectedAs(app, handle_key_press(app, KeyOf("Enter"), env),
                          handle_key_press(OnItemPanel(app), KeyOf("Enter"), env))
            /\ handle_key_press(app, KeyOf("Enter"), env).focused_panel =
                  handle_key_press(OnItemPanel(app), KeyOf("Enter"), env).focused_panel

\* C13 as the code has it: the same, but for the focus, which is the detail
\* panel when details were fetched and otherwise the panel the search was
\* begun on.
C13_SearchEnterSelectsKeepingFocus ==
    app.modal.kind = "None" /\ app.search_active =>
        \A env \in AllEnvs :
            /\ SelectedAs(app, handle_key_press(app, KeyOf("Enter"), env),
                          handle_key_press(OnItemPanel(app), KeyOf("Enter"), env))
            /\ handle_key_press(app, KeyOf("Enter"), env).focused_panel =
                  (IF handle_key_press(OnItemPanel(app), KeyOf("Enter"), env).focused_panel
                        = "VaultItemDetail"
                   THEN "VaultItemDetail" ELSE app.focused_panel)

\* Enter in a search begun on the detail panel committed an item whose details
\* could not be fetched: the focus is still the detail panel
C13_Witness ==
    /\ last.op = "SearchKey"
    /\ ~app.search_active
    /\ app.selected_vault_item_idx /= None
    /\ ~app.selected_item_details.some
    /\ app.error_message /= ""
    /\ app.focused_panel = "VaultItemDetail"

NameChars == {"A", "C", "D", "F", "G", "J", "K", "M", "N", "Q", "R", "V", "Y",
              "0", "1", "2", "3", "_"}

\* the characters a key can carry: those of Chars, more letters, an upper-case
\* letter, the underscore and a hyphen
TypedChars == Chars \cup {"m", "a", "r", "G", "_", "-"}

NameOk(name) == \A i \in 1..Len(name) : name[i] \in NameChars

\* the state after the characters of cs were typed one after the other
RECURSIVE TypeAll(_, _)
TypeAll(a, cs) ==
    IF cs = <<>> THEN a
    ELSE TypeAll(handle_key_press(a, CharKey(Head(cs)), Env0), Tail(cs))

\* b is a after the key c in the EnvVar modal: a letter, digit or underscore
\* is at the end of the name, the letter in upper case; any other character
\* left the name as it was
TypedIntoName(a, b, c) ==
    IF c \in NameChars \/ to_ascii_uppercase(c) \in NameChars
    THEN /\ Len(b.modal.env_var_name) = Len(a.modal.env_var_name) + 1
         /\ Pop(b.modal.env_var_name) = a.modal.env_var_name
         /\ Last(b.modal.env_var_name) \in NameChars
         /\ to_ascii_lowercase(Last(b.modal.env_var_name)) = to_ascii_lowercase(c)
    ELSE b.modal.env_var_name = a.modal.env_var_name

\* C14: the name in the EnvVar modal and the names of the stored bindings
\* hold only A-Z, 0-9 and the underscore: a typed letter is stored in upper
\* case, a digit and the underscore as typed, any other character is dropped;
\* m, y, space, v, a, r typed in a row give MYVAR.
C14_NameCharsOnly ==
    /\ NameOk(app.modal.env_var_name)
    /\ \A b \in app.config.inject_vars : NameOk(b.name)
    /\ \A i \in 1..Len(app.managed_vars) : NameOk(app.managed_vars[i])
    /\ app.modal.kind = "EnvVar" =>
          /\ \A c \in TypedChars, env \in AllEnvs :
                TypedIntoName(app, handle_key_press(app, CharKey(c), env), c)
          /\ TypeAll(app, <<"m", "y", " ", "v", "a", "r">>).modal.env_var_name =
                app.modal.env_var_name \o <<"M", "Y", "V", "A", "R">>

\* q was typed, the binding Q was stored with Enter and is in the managed list
C14_Witness ==
    /\ last.op = "EnvVarModalKey"
    /\ app.modal.kind = "None"
    /\ \E b \in app.config.inject_vars : b.name = <<"Q">>
    /\ \E i \in 1..Len(app.managed_vars) : app.managed_vars[i] = <<"Q">>

\* b is a after Enter in the EnvVar modal, the store succeeding or not
EnterOutcome(a, b, store_ok) ==
    IF a.modal.env_var_name = <<>> \/ selected_account(a) = ""
    THEN /\ b.error_message /= ""
         /\ b.config = a.config
         /\ b.modal = a.modal
    ELSE IF store_ok
    THEN /\ [name |-> a.modal.env_var_name, account_id |-> selected_account(a),
             op_reference |-> a.modal.field_reference] \in b.config.inject_vars
         /\ \A x \in b.config.inject_vars :
               x.name = a.modal.env_var_name => x.account_id = selected_account(a)
         /\ {x \in b.config.inject_vars : x.name /= a.modal.env_var_name} =
               {x \in a.config.inject_vars : x.name /= a.modal.env_var_name}
         /\ b.managed_vars = SortedSeq({x.name : x \in b.config.inject_vars})
         /\ b.modal.kind = "None"
    ELSE /\ b.modal = a.modal
         /\ b.error_message /= ""
         /\ b.config.inject_vars = a.config.inject_vars

\* C15: Enter in the EnvVar modal with an empty name or no committed account
\* sets an error, stores nothing and leaves the modal and its name; otherwise
\* it stores name -> (committed account, field reference), refreshes the
\* managed list and closes the modal; when the store fails the modal stays
\* open with the error and the bindings are as before.
C15_EnterPersists ==
    [][\A st \in BOOLEAN :
          /\ app.modal.kind = "EnvVar"
          /\ last'.op = "EnvVarModalKey"
          /\ app' = handle_key_press([app EXCEPT !.command_log = <<>>, !.copied = <<>>],
                                     KeyOf("Enter"), [Env0 EXCEPT !.store = st])
          => EnterOutcome(app, app', st)]_vars

\* C16: an error shown in the EnvVar modal is gone after the next key typed
\* into the modal, accepted into the name or not, and after Escape.
C16_ErrorUntilNextKey ==
    app.modal.kind = "EnvVar" /\ app.error_message /= "" =>
        \A key \in (Keys \cup {CharKey("_")}) \ {KeyOf("Enter")}, env \in AllEnvs :
            handle_key_press(app, key, env).error_message = ""

DeleteModalKeys == Keys \cup {CharKey("Y"), CharKey("N")}

\* b is a after the key in the delete modal
DeleteOutcome(a, b, key, store_ok) ==
    CASE key.code = "Char" /\ key.ch \in {"y", "Y"} ->
            IF store_ok
            THEN /\ b.config.inject_vars =
                      {x \in a.config.inject_vars :
                          \A i \in 1..Len(a.modal.vars) : x.name /= a.modal.vars[i]}
                 /\ b.modal.kind = "None"
            ELSE /\ b.modal = a.modal
                 /\ b.error_message /= ""
      [] key.code = "Esc" \/ (key.code = "Char" /\ key.ch \in {"n", "N"}) ->
            /\ b.modal.kind = "None"
            /\ b.config = a.config
      [] OTHER ->
            /\ b.modal = a.modal
            /\ b.config = a.config

\* C17: in the delete modal y or Y removes the bindings the modal lists, no
\* other, and closes it, or leaves it open with an error when the removal
\* fails; n, N and Escape close it with the bindings as they were; any other
\* key leaves the modal and the bindings as they were.
C17_DeleteConfirmKeys ==
    app.modal.kind = "VarDeleteConfirm" =>
        \A key \in DeleteModalKeys, env \in AllEnvs :
            DeleteOutcome(app, handle_key_press(app, key, env), key, env.store)

\* of two bindings the listed one was removed and the other is still there
C17_Witness ==
    /\ last.op = "VarDeleteModalKey"
    /\ app.modal.kind = "None"
    /\ app.command_log = <<[command |-> "Vars removed", success |-> TRUE, item_count |-> None]>>
    /\ Cardinality(app.config.inject_vars) = 1
    /\ Len(app.managed_vars) = 1

\* the marked names when there are any, else the name under the cursor
ChosenVars(a) ==
    IF a.managed_vars_selected /= {} THEN a.managed_vars_selected
    ELSE IF a.managed_vars_list_state \in 0..(Len(a.managed_vars) - 1)
    THEN {Get(a.managed_vars, a.managed_vars_list_state)}
    ELSE {}

NamesOf(names) == {names[i] : i \in 1..Len(names)}

Failure(command) == [command |-> command, success |-> FALSE, item_count |-> None]

\* b is a after the copy key: nothing chosen logs a failure only; else the
\* chosen names are what reaches the clipboard
CopyOutcome(a, b, clip_ok) ==
    /\ b.modal = a.modal
    /\ b.config = a.config
    /\ IF ChosenVars(a) = {}
       THEN b = [a EXCEPT !.command_log = Append(@, Failure("Vars copy"))]
       ELSE IF clip_ok
       THEN NamesOf(b.copied) = ChosenVars(a) /\ Len(b.copied) = Cardinality(ChosenVars(a))
       ELSE b = [a EXCEPT !.command_log = Append(@, Failure("Vars copy"))]

\* b is a after the delete key: nothing chosen logs a failure only; else the
\* delete modal lists the chosen names and no binding is gone
DeleteKeyOutcome(a, b) ==
    /\ b.config = a.config
    /\ b.managed_vars = a.managed_vars
    /\ IF ChosenVars(a) = {}
       THEN b = [a EXCEPT !.command_log = Append(@, Failure("Vars delete"))]
       ELSE /\ b.modal.kind = "VarDeleteConfirm"
            /\ NamesOf(b.modal.vars) = ChosenVars(a)
            /\ Len(b.modal.vars) = Cardinality(ChosenVars(a))

\* C18: on the vars panel copy and delete take the marked names when there
\* are any and else the name under the cursor; with neither, the key logs a
\* failure and opens no modal; delete removes no binding and opens the delete
\* modal listing exactly the names taken.
C18_VarsActionsTarget ==
    app.modal.kind = "None" /\ ~app.search_active /\ app.focused_panel = "VarsList" =>
        \A env \in AllEnvs :
            /\ \A c \in {"c", "C"} :
                  CopyOutcome(app, handle_key_press(app, CharKey(c), env), env.clip)
            /\ \A c \in {"d", "D"} :
                  DeleteKeyOutcome(app, handle_key_press(app, CharKey(c), env))

\* the delete modal lists the one marked name while the cursor is on another
C18_Witness ==
    /\ last.op = "VarsActionKey"
    /\ app.modal.kind = "VarDeleteConfirm"
    /\ Cardinality(app.managed_vars_selected) = 1
    /\ NamesOf(app.modal.vars) = app.managed_vars_selected
    /\ app.managed_vars_list_state \in 0..(Len(app.managed_vars) - 1)
    /\ Get(app.managed_vars, app.managed_vars_list_state) \notin app.managed_vars_selected

\* b and c differ in nothing but the log of the key event
SameButLog(b, c) == [b EXCEPT !.command_log = <<>>] = [c EXCEPT !.command_log = <<>>]

\* b is a after the favorite key on the account panel with the cursor on an account
AccountFavoriteOutcome(a, b, env) ==
    IF env.store
    THEN /\ b.config = [a.config EXCEPT !.default_account_id =
                            Get(a.accounts, a.account_list_state).account_uuid]
         /\ SameButLog(b, handle_key_press([a EXCEPT !.config = b.config], KeyOf("Enter"), env))
         /\ b.config.default_account_id = selected_account(b)
    ELSE /\ SameButLog(b, a)
         /\ b.command_log =
               Append(a.command_log, Failure("Failed to save default account configuration"))

\* b is a after the favorite key on the vault panel with an account committed
\* and the cursor on a vault
VaultFavoriteOutcome(a, b, env) ==
    IF env.store
    THEN /\ b.config = [a.config EXCEPT !.default_vault_per_account[selected_account(a)] =
                            Get(a.vaults, a.vault_list_state).id]
         /\ SameButLog(b, handle_key_press([a EXCEPT !.config = b.config], KeyOf("Enter"), env))
         /\ b.config.default_vault_per_account[selected_account(b)] = selected_vault(b)
    ELSE /\ SameButLog(b, a)
         /\ b.command_log =
               Append(a.command_log, Failure("Failed to save default vault configuration"))

FavoriteOutcome(a, b, env) ==
    CASE a.focused_panel = "AccountList" /\ a.account_list_state \in 0..(Len(a.accounts) - 1) ->
            AccountFavoriteOutcome(a, b, env)
      [] a.focused_panel = "VaultList" /\ selected_account(a) /= ""
         /\ a.vault_list_state \in 0..(Len(a.vaults) - 1) ->
            VaultFavoriteOutcome(a, b, env)
      [] OTHER -> TRUE

CallFailed(b) == \E i \in 1..Len(b.command_log) : ~b.command_log[i].success

\* C20: when a load fails during Select on the account, vault or item panel,
\* the favorite key or Enter in search mode, the error is in error_message,
\* the program runs on, and the committed indices, the lists, the cursors,
\* the focus and the search are as before the key.
C20_FailedLoadKeepsState ==
    [][\A key \in {KeyOf("Enter"), CharKey("f")}, env \in AllEnvs :
          /\ app.modal.kind = "None"
          /\ last'.op \in {"SelectAccountKey", "SelectVaultKey", "SelectItemKey",
                           "SearchKey", "FavoriteKey"}
          /\ app' = handle_key_press([app EXCEPT !.command_log = <<>>, !.copied = <<>>],
                                     key, env)
          /\ CallFailed(app')
          => /\ app'.error_message /= ""
             /\ ~app'.panicked
             /\ [app' EXCEPT !.command_log = <<>>, !.error_message = "", !.copied = <<>>,
                             !.config = app.config]
                  = [app EXCEPT !.command_log = <<>>, !.error_message = "", !.copied = <<>>]]_vars


\* a loader refused the call: an error value, the process runs on, and the App
\* (lists, selections, cursors, Command Log) is as before the call
Refused(a, r) == ~r.ok /\ ~r.app.panicked /\ r.app = a

\* C21: whenever no account or no vault is committed, load_vault_items and
\* load_item_details both return an error value without calling `op`, without
\* changing any list or selection and without aborting the process.
C21_LoadersNeedCommitted ==
    ~app.panicked /\ (app.selected_account_idx = None \/ app.selected_vault_idx = None)
    => \A outcome \in Outcomes, item_id \in ItemIds :
          /\ Refused(app, load_vault_items(app, outcome))
          /\ Refused(app, load_item_details(app, item_id, outcome))

\* an account and a vault are committed: the item loaders call `op`
Committed(a) == selected_account(a) /= "" /\ selected_vault(a) /= ""

\* the call r on a appended one Command Log entry: a success with the size of
\* the collection it stored, or a failure that left the collection as it was
LoggedOnce(a, r, before, after) ==
    /\ Len(r.app.command_log) = Len(a.command_log) + 1
    /\ SubSeq(r.app.command_log, 1, Len(a.command_log)) = a.command_log
    /\ IF r.ok
       THEN Last(r.app.command_log).success
            /\ Last(r.app.command_log).item_count = Len(after)
       ELSE ~Last(r.app.command_log).success /\ after = before

AccountsLogged(a, r) == LoggedOnce(a, r, a.accounts, r.app.accounts)

VaultsLogged(a, r) == LoggedOnce(a, r, a.vaults, r.app.vaults)

ItemsLogged(a, r) == LoggedOnce(a, r, a.vault_items, r.app.vault_items)

DetailsLogged(a, r) ==
    LoggedOnce(a, r, a.selected_item_details.fields, r.app.selected_item_details.fields)

\* C22: every call of a loader that invokes `op` appends exactly one Command
\* Log entry: a success entry with the element count when the call succeeded,
\* a failure entry when it failed for any reason (non-zero exit, spawn
\* failure, unparsable JSON); the collection is replaced only on success.
C22_EveryCallLogged ==
    ~app.panicked
    => \A outcome \in Outcomes :
          /\ AccountsLogged(app, load_accounts(app, WorldAccounts, outcome))
          /\ VaultsLogged(app, load_vaults(app, outcome))
          /\ Committed(app) => /\ ItemsLogged(app, load_vault_items(app, outcome))
                               /\ \A item_id \in ItemIds :
                                     DetailsLogged(app, load_item_details(app, item_id, outcome))

\* the last min(n, Len(s)) elements of s, in their order
Newest(s, n) == [k \in 1..Min2(n, Len(s)) |-> s[Len(s) - Min2(n, Len(s)) + k]]

\* C23: the Command Log never holds more than 50 entries; it holds exactly
\* the most recent min(50, total) entries ever logged, in logging order; and
\* recent(n) returns its last min(n, len) entries in order.
C23_LogBoundedNewest ==
    /\ Len(app.command_log) <= 50
    /\ app.command_log = Newest(last.logged, 50)
    /\ \A n \in 0..(MaxLogged + 1) : recent(app.command_log, n) = Newest(app.command_log, n)

C23_Witness ==
    /\ Len(last.logged) > 50
    /\ \E k \in 1..Len(app.command_log) : ~app.command_log[k].success
    /\ recent(app.command_log, 2) /= app.command_log

\* what read_cached_output must answer for the entry at the path of
\* (account, kind) when no step of the read is refused
Classified(entry, ttl, r) ==
    /\ r.outcome = "Miss" <=> entry.type = "none"
    /\ r.outcome = "Expired" <=> entry.type /= "none" /\ disk.now - entry.mtime > ttl
    /\ r.outcome \notin {"Miss", "Expired"}
       => r.outcome = "Hit" /\ r.contents = entry.content

\* C24: read_cached_output answers Miss exactly when no cache file exists
\* for (account, kind), Expired exactly when the file exists and now - mtime
\* is strictly greater than ttl, and Hit with the file's contents otherwise,
\* also when the age equals ttl; a refused metadata or mtime read is an
\* error, not a Miss.
C24_ReadClassifies ==
    \A id \in AccountArgs, k \in 1..2, ttl \in 0..MaxTtl, fault \in ReadFaults :
        /\ fault = "none" => read_cached_output(disk, id, CacheKinds[k], ttl, fault).ok
        /\ read_cached_output(disk, id, CacheKinds[k], ttl, fault).ok
           => Classified(disk.cache[cache_path_for_account(id, CacheKinds[k])], ttl,
                         read_cached_output(disk, id, CacheKinds[k], ttl, fault))
        /\ \/ fault = "stat"
           \/ fault = "mtime"
              /\ disk.cache[cache_path_for_account(id, CacheKinds[k])].type /= "none"
           => read_cached_output(disk, id, CacheKinds[k], ttl, fault).outcome = "Error"

\* one entry is as old as the largest ttl, another is missing, and a third was
\* written after the clock's present reading
C24_Witness ==
    /\ \E p \in CachePaths : disk.cache[p].type = "file" /\ disk.now - disk.cache[p].mtime = MaxTtl
    /\ \E id \in AccountArgs : disk.cache[cache_path_for_account(id, "EnvInject")].type = "none"

\* the cache entries of account id, by kind
EntriesOf(d, id) == [k \in 1..2 |-> d.cache[cache_path_for_account(id, CacheKinds[k])]]

\* C25: a cache write of X for (account, kind) followed at once by a read of
\* (account, kind) with ttl > 0 answers Hit(X) whatever the cache held
\* before, and the entry of the other kind and the entries of every other
\* account are as they were.
C25_WriteThenReadHits ==
    \A id \in AccountArgs, k \in 1..2, X \in CacheContents, ttl \in 1..MaxTtl :
        /\ read_cached_output(write_cached_output(disk, id, CacheKinds[k], X, "none").disk,
                              id, CacheKinds[k], ttl, "none")
             = [ok |-> TRUE, outcome |-> "Hit", contents |-> X]
        /\ EntriesOf(write_cached_output(disk, id, CacheKinds[k], X, "none").disk, id)[3 - k]
             = EntriesOf(disk, id)[3 - k]
        /\ \A other \in AccountArgs \ {id} :
              EntriesOf(write_cached_output(disk, id, CacheKinds[k], X, "none").disk, other)
                = EntriesOf(disk, other)

\* C26: clearing the cache of one account removes its cache files of both
\* kinds and no file of another account: every other account's entries read
\* the same before and after; the result is Removed iff at least one of the
\* account's files existed, NotFound otherwise.
C26_ClearOneAccountOnly ==
    \A id \in AccountArgs :
        /\ \A k \in 1..2 : EntriesOf(remove_cache_for_account(disk, id, {}).disk, id)[k] = NoFile
        /\ \A other \in AccountArgs \ {id}, k \in 1..2, ttl \in 0..MaxTtl :
              read_cached_output(remove_cache_for_account(disk, id, {}).disk,
                                 other, CacheKinds[k], ttl, "none")
                = read_cached_output(disk, other, CacheKinds[k], ttl, "none")
        /\ remove_cache_for_account(disk, id, {}).removal
             = IF \E k \in 1..2 : EntriesOf(disk, id)[k] /= NoFile
               THEN "Removed" ELSE "NotFound"

\* two account ids that sanitize_account_id maps to one file name
Collide(id, other) == sanitize_account_id(id) = sanitize_account_id(other)

\* C25 (amended): a cache write of X for (account, kind) followed at once by
\* a read of (account, kind) answers Hit(X) whatever the cache held before,
\* and the entry of the other kind and the entries of every other account
\* whose sanitized id differs are as they were.
C25_WriteThenReadHitsSanitized ==
    \A id \in AccountArgs, k \in 1..2, X \in CacheContents, ttl \in 0..MaxTtl :
        /\ read_cached_output(write_cached_output(disk, id, CacheKinds[k], X, "none").disk,
                              id, CacheKinds[k], ttl, "none")
             = [ok |-> TRUE, outcome |-> "Hit", contents |-> X]
        /\ EntriesOf(write_cached_output(disk, id, CacheKinds[k], X, "none").disk, id)[3 - k]
             = EntriesOf(disk, id)[3 - k]
        /\ \A other \in AccountArgs \ {id} :
              ~Collide(id, other)
              => EntriesOf(write_cached_output(disk, id, CacheKinds[k], X, "none").disk, other)
                   = EntriesOf(disk, other)

\* an account holds the longer content, written earlier, next to an entry of
\* the other kind and an entry of an account with another file name
C25_Witness ==
    \E id \in AccountArgs, other \in AccountArgs :
        /\ ~Collide(id, other)
        /\ EntriesOf(disk, id)[1] = File(<<<<"X">>, <<"Y">>>>, 0)
        /\ EntriesOf(disk, id)[2].type = "file"
        /\ EntriesOf(disk, other)[1].type = "file"
        /\ disk.now = 1

\* C26 (amended): clearing the cache of one account removes its cache files
\* of both kinds and no file of an account whose sanitized id differs: every
\* such account's entries read the same before and after; the result is
\* Removed iff at least one of the account's files existed, NotFound otherwise.
C26_ClearOneSanitizedOnly ==
    \A id \in AccountArgs :
        /\ \A k \in 1..2 : EntriesOf(remove_cache_for_account(disk, id, {}).disk, id)[k] = NoFile
        /\ \A other \in AccountArgs \ {id}, k \in 1..2, ttl \in 0..MaxTtl :
              ~Collide(id, other)
              => read_cached_output(remove_cache_for_account(disk, id, {}).disk,
                                    other, CacheKinds[k], ttl, "none")
                   = read_cached_output(disk, other, CacheKinds[k], ttl, "none")
        /\ remove_cache_for_account(disk, id, {}).removal
             = IF \E k \in 1..2 : EntriesOf(disk, id)[k] /= NoFile
               THEN "Removed" ELSE "NotFound"

\* an account holds only its template entry, another account both of its own
C26_Witness ==
    \E id \in AccountArgs, other \in AccountArgs :
        /\ ~Collide(id, other)
        /\ EntriesOf(disk, id)[1] = NoFile
        /\ EntriesOf(disk, id)[2].type = "file"
        /\ \A k \in 1..2 : EntriesOf(disk, other)[k].type = "file"
        /\ remove_cache_for_account(disk, id, {}).removal = "Removed"

\* the regular files directly under the cache directory
FilesOf(d) == {p \in CachePaths : d.cache[p].type = "file"}

\* the result r of clear_all_caches on d when fs::remove_file refuses `fails`
ClearedAll(d, fails, r) ==
    /\ r.ok
    /\ FilesOf(r.disk) = FilesOf(d) \cap fails
    /\ \A p \in CachePaths \ (FilesOf(d) \ fails) : r.disk.cache[p] = d.cache[p]
    /\ r.disk.now = d.now
    /\ r.removed = Cardinality(FilesOf(d) \ FilesOf(r.disk))

\* C27: clear_all_caches removes every regular file directly under the cache
\* directory and nothing else: a subdirectory stays, a file whose removal is
\* refused does not stop the removal of the others nor fail the operation,
\* and the reported count is the number of files actually removed.
C27_ClearAllFilesOnly ==
    \A fails \in FailSets : ClearedAll(disk, fails, clear_all_caches(disk, fails))

\* two files and a subdirectory, as in the test
C27_Witness ==
    /\ Cardinality(FilesOf(disk)) = 2
    /\ disk.cache[<<"nested", <<>>, "">>].type = "dir"
    /\ clear_all_caches(disk, {}).removed = 2
    /\ \E p \in FilesOf(disk) : clear_all_caches(disk, {p}).removed = 1

\* the groups of the configuration on disk d
Groups(d, env) == group_vars_by_account(d.config.inject_vars, env.rev)

\* the cache entry of (account, kind) is fresh for the run
Hits(d, account_id, kind, cache_ttl, env) ==
    /\ cache_ttl /= None
    /\ read_cached_output(d, account_id, kind, cache_ttl, env.rfault).outcome = "Hit"

\* what a run over d that ended in r did for the account of group g: nothing
\* but the cache read on a Hit; else one `op inject`, its output written to
\* the cache when there is a ttl, the call succeeded and the write was not
\* refused
CacheFirst(d, g, kind, input, cache_ttl, env, r) ==
    /\ Cardinality({i \in DOMAIN r.invoked : r.invoked[i] = g.account_id})
         = IF Hits(d, g.account_id, kind, cache_ttl, env) THEN 0 ELSE 1
    /\ r.disk.cache[cache_path_for_account(g.account_id, kind)]
         = IF /\ cache_ttl /= None
              /\ ~Hits(d, g.account_id, kind, cache_ttl, env)
              /\ env.inject[g.account_id] = "ok"
              /\ env.wfault = "none"
           THEN File(run_op_inject(input, "ok").output, d.now)
           ELSE d.cache[cache_path_for_account(g.account_id, kind)]

\* what the run produced for the account of group g
Produced(d, g, kind, input, cache_ttl, env) ==
    IF Hits(d, g.account_id, kind, cache_ttl, env)
    THEN d.cache[cache_path_for_account(g.account_id, kind)].content
    ELSE run_op_inject(input, env.inject[g.account_id]).output

RECURSIVE EnvOutput(_, _, _, _)
EnvOutput(d, groups, cache_ttl, env) ==
    IF groups = <<>> THEN <<>>
    ELSE Produced(d, Head(groups), "EnvInject", env_input(Head(groups).vars), cache_ttl, env)
         \o EnvOutput(d, Tail(groups), cache_ttl, env)

\* C28: inject resolution is cache-first exactly when a TTL is given: with a
\* TTL, a Hit for (account, kind) gives the cached output and `op inject` is
\* not run for the account, while Miss, Expired or a cache read error runs it
\* exactly once and a successful output is written to the cache; without a
\* TTL `op inject` is run for every account and the cache is left as it is.
C28_CacheFirstWithTtl ==
    \A cache_ttl \in Ttls, env \in InjectEnvs :
        /\ handle_env_injection(disk, cache_ttl, env).output
             = EnvOutput(disk, Groups(disk, env), cache_ttl, env)
        /\ \A i \in DOMAIN Groups(disk, env) :
              /\ CacheFirst(disk, Groups(disk, env)[i], "EnvInject",
                            env_input(Groups(disk, env)[i].vars), cache_ttl, env,
                            handle_env_injection(disk, cache_ttl, env))
              /\ CacheFirst(disk, Groups(disk, env)[i], "TemplateRender",
                            template_input(Groups(disk, env)[i].vars), cache_ttl, env,
                            render_templates(disk, cache_ttl, env))
              /\ LET g == Groups(disk, env)[i]
                     out == load_template_output(disk, g.account_id, template_input(g.vars),
                                                 cache_ttl, env)
                 IN  out.ok => out.output = Produced(disk, g, "TemplateRender",
                                                     template_input(g.vars), cache_ttl, env)

\* one account's env entry is fresh and holds what an earlier run cached in
\* the other iteration order, the other account's is as old as the ttl allows
\* no more, and a template entry is missing
C28_Witness ==
    /\ disk.now = 1
    /\ disk.cache[cache_path_for_account(<<"a", "_">>, "EnvInject")]
         = File(run_op_inject(env_input(Groups(disk, [rev |-> TRUE])[1].vars), "ok").output, 1)
    /\ Len(Groups(disk, [rev |-> TRUE])[1].vars) = 2
    /\ disk.cache[cache_path_for_account(<<"k">>, "EnvInject")].type = "file"
    /\ disk.cache[cache_path_for_account(<<"k">>, "EnvInject")].mtime = 0
    /\ disk.cache[cache_path_for_account(<<"k">>, "TemplateRender")].type = "none"

\* `op inject` is run for the account of group g and fails
InjectFails(d, g, kind, cache_ttl, env) ==
    env.inject[g.account_id] /= "ok" /\ ~Hits(d, g.account_id, kind, cache_ttl, env)

\* the name and value pairs of the lines of an `op inject` answer
PairsOf(output) ==
    {<<output[i][1], output[i][3]>> :
        i \in {j \in DOMAIN output : Len(output[j]) = 3 /\ output[j][2] = ": "}}

\* the run over d that ended in r skipped the account of group g with a
\* warning, succeeded, and left the account's cache entry as it was
Skipped(d, g, kind, r) ==
    /\ \E i \in DOMAIN r.warned : r.warned[i] = g.account_id
    /\ r.ok
    /\ r.disk.cache[cache_path_for_account(g.account_id, kind)]
         = d.cache[cache_path_for_account(g.account_id, kind)]

\* C29: in env injection and in template rendering over several accounts, an
\* account whose `op inject` fails is warned about and skipped: the other
\* accounts' output and values are produced, the operation does not fail, and
\* the failing account's cache entry is neither overwritten nor removed.
C29_FailedAccountSkipped ==
    \A cache_ttl \in Ttls, env \in InjectEnvs : \A i \in DOMAIN Groups(disk, env) :
        /\ InjectFails(disk, Groups(disk, env)[i], "EnvInject", cache_ttl, env)
           => /\ Skipped(disk, Groups(disk, env)[i], "EnvInject",
                         handle_env_injection(disk, cache_ttl, env))
              /\ handle_env_injection(disk, cache_ttl, env).output
                   = EnvOutput(disk, Groups(disk, env), cache_ttl, env)
        /\ InjectFails(disk, Groups(disk, env)[i], "TemplateRender", cache_ttl, env)
           => /\ Skipped(disk, Groups(disk, env)[i], "TemplateRender",
                         render_templates(disk, cache_ttl, env))
              /\ \A j \in DOMAIN Groups(disk, env) \ {i} :
                    PairsOf(Produced(disk, Groups(disk, env)[j], "TemplateRender",
                                     template_input(Groups(disk, env)[j].vars), cache_ttl, env))
                      \subseteq render_templates(disk, cache_ttl, env).resolved

\* both accounts hold entries of both kinds, written before the clock's
\* present reading, so that a run with ttl 0 finds them expired
C29_Witness ==
    /\ disk.now = 1
    /\ \A id \in {<<"a", "_">>, <<"k">>}, k \in 1..2 :
          /\ disk.cache[cache_path_for_account(id, CacheKinds[k])].type = "file"
          /\ disk.cache[cache_path_for_account(id, CacheKinds[k])].mtime = 0
    /\ disk.config.templated_files /= {}

\* the target path is a key of the managed-file mapping of d
Managed(d, target_path) == \E t \in d.config.templated_files : t.target = target_path

\* the target path is a file of d
Exists(d, target_path) ==
    target_path \in DOMAIN d.files /\ d.files[target_path].type = "file"

\* content is a marker comment line followed by the lines of original
MarkedCopy(content, original) ==
    /\ content /= <<>>
    /\ Head(content) = "# op-loader:"
    /\ \E k \in DOMAIN content :
          /\ content[k] = "\n"
          /\ \A j \in 1..(k - 1) : content[j] /= "\n"
          /\ SubSeq(content, k + 1, Len(content)) = original

\* the outcome r of Template Add of the target path over d: refused with
\* mapping and templates directory as they were when the target is missing or
\* managed, and when it succeeded the template and the mapping are stored
Added(d, target_path, r) ==
    /\ (~Exists(d, target_path) \/ Managed(d, target_path))
       => /\ ~r.ok
          /\ r.disk.config = d.config
          /\ r.disk.templates = d.templates
          /\ r.disk.templates_dir = d.templates_dir
    /\ r.ok
       => /\ r.disk.templates[<<Last(target_path), ".tmpl">>].type = "file"
          /\ MarkedCopy(r.disk.templates[<<Last(target_path), ".tmpl">>].content,
                        d.files[target_path].content)
          /\ r.disk.config.templated_files
               = d.config.templated_files
                   \cup {[target |-> target_path,
                          template_name |-> <<Last(target_path), ".tmpl">>]}
          /\ r.disk.config.inject_vars = d.config.inject_vars

\* C30: Template Add fails, leaving the managed-file mapping and the
\* templates directory unchanged, when the target file does not exist or is
\* already managed; when it succeeds, the template <target file name>.tmpl
\* holds a marker comment line followed by the target's current content, and
\* the mapping from the target path to that template name is persisted; it
\* succeeds for an existing unmanaged target when the configuration is stored.
C30_TemplateAdd ==
    \A path \in TargetArgs, rev \in BOOLEAN, store_ok \in BOOLEAN :
        /\ Added(disk, expand_path(disk, path), template_add(disk, path, rev, store_ok))
        /\ ( /\ Exists(disk, expand_path(disk, path))
             /\ ~Managed(disk, expand_path(disk, path))
             /\ store_ok )
           => template_add(disk, path, rev, store_ok).ok

\* one target is managed and its file has changed since it was added, a
\* second one exists unmanaged, a third does not exist
C30_Witness ==
    /\ Managed(disk, <<"a", "npmrc">>)
    /\ disk.templates[<<"npmrc", ".tmpl">>].type = "file"
    /\ disk.files[<<"a", "npmrc">>].type = "file"
    /\ ~MarkedCopy(disk.templates[<<"npmrc", ".tmpl">>].content,
                   disk.files[<<"a", "npmrc">>].content)
    /\ disk.files[<<"b", "npmrc">>].type = "file"
    /\ ~Managed(disk, <<"b", "npmrc">>)
    /\ disk.files[<<"a", "env">>].type = "none"
    /\ disk.config.inject_vars /= {}

\* the outcome r of Template Remove of the target path over d, when it
\* succeeded: the mapping of the target is gone and no other, its template
\* file is gone and no other is touched
Removed(d, target_path, r) ==
    /\ ~Managed(r.disk, target_path)
    /\ \E t \in d.config.templated_files :
          /\ t.target = target_path
          /\ r.disk.config.templated_files = d.config.templated_files \ {t}
          /\ r.disk.templates = [d.templates EXCEPT ![t.template_name] = NoFile]
    /\ r.disk.files = d.files

\* C31: Template Remove of a managed target succeeds (nothing being refused
\* by the file system) whether or not its template file still exists, and
\* leaves the mapping without the target and the template file deleted;
\* Remove of an unmanaged target fails with mappings and template files as
\* they were; after a successful Remove the target is not listed and, if it
\* still exists, can be added again.
C31_TemplateRemove ==
    \A path \in TargetArgs, remove_ok \in BOOLEAN, store_ok \in BOOLEAN :
        /\ Managed(disk, expand_path(disk, path)) /\ remove_ok /\ store_ok
           => template_remove(disk, path, remove_ok, store_ok).ok
        /\ template_remove(disk, path, remove_ok, store_ok).ok
           => /\ Managed(disk, expand_path(disk, path))
              /\ Removed(disk, expand_path(disk, path),
                         template_remove(disk, path, remove_ok, store_ok))
              /\ Exists(disk, expand_path(disk, path))
                 => \A rev \in BOOLEAN :
                       template_add(template_remove(disk, path, remove_ok, store_ok).disk,
                                    path, rev, TRUE).ok
        /\ ~Managed(disk, expand_path(disk, path))
           => /\ ~template_remove(disk, path, remove_ok, store_ok).ok
              /\ template_remove(disk, path, remove_ok, store_ok).disk = disk

\* one managed target whose template file is gone, one whose template file
\* is there, one unmanaged
C31_Witness ==
    /\ Managed(disk, <<"a", "npmrc">>)
    /\ disk.templates[<<"npmrc", ".tmpl">>].type = "none"
    /\ Managed(disk, <<"a", "env">>)
    /\ disk.templates[<<"env", ".tmpl">>].type = "file"
    /\ Exists(disk, <<"b", "npmrc">>)
    /\ ~Managed(disk, <<"b", "npmrc">>)

\* the template of the managed target of the rendering runs
Template == disk.templates[<<"npmrc", ".tmpl">>].content

\* C32: rendering is idempotent and deterministic: for every template content
\* and every table of resolved values, values that hold the placeholder of
\* another variable included, two runs over the same template and table write
\* the same content to the target.
C32_RenderDeterministic ==
    \A first \in BOOLEAN, second \in BOOLEAN :
        write_rendered(write_rendered(disk, last.resolved, first),
                       last.resolved, second).files
          = write_rendered(disk, last.resolved, first).files

\* the lines of a text, without their line feeds
RECURSIVE LinesOf(_)
LinesOf(text) ==
    IF text = <<>> THEN <<>>
    ELSE IF \A k \in DOMAIN text : text[k] /= "\n" THEN <<text>>
    ELSE LET k == CHOOSE k \in DOMAIN text :
                      text[k] = "\n" /\ \A j \in 1..(k - 1) : text[j] /= "\n"
         IN  <<SubSeq(text, 1, k - 1)>> \o LinesOf(SubSeq(text, k + 1, Len(text)))

\* the lines, each but the last followed by a line feed
RECURSIVE Joined(_)
Joined(ls) ==
    IF ls = <<>> THEN <<>>
    ELSE IF Len(ls) = 1 THEN ls[1]
    ELSE ls[1] \o <<"\n">> \o Joined(Tail(ls))

\* the content the claim describes for a template and a table: the lines
\* that do not begin with the marker, the last one followed by a line feed iff
\* the template ends with one, every placeholder of a resolved name replaced
\* by its value and every other token as it is
Described(content, resolved) ==
    LET kept == SelectSeq(LinesOf(content),
                          LAMBDA line : line = <<>> \/ Head(line) /= "# op-loader:")
        text == Joined(kept)
                  \o (IF content /= <<>> /\ content[Len(content)] = "\n"
                      THEN <<"\n">> ELSE <<>>)
    IN  [i \in DOMAIN text |->
            IF \E p \in resolved : text[i] = Placeholder(p[1])
            THEN (CHOOSE p \in resolved : text[i] = Placeholder(p[1]))[2]
            ELSE text[i]]

\* C33: the rendered content is the template without the lines that begin
\* with the marker `# op-loader:`, with every placeholder of a resolved name
\* replaced by its value, every other placeholder and every other line kept,
\* and with a trailing line feed iff the template ended with one.
C33_RenderedContent ==
    \A rev \in BOOLEAN :
        write_rendered(disk, last.resolved, rev).files[<<"a", "npmrc">>].content
          = Described(Template, last.resolved)


\* C34: two processes write the cache entry of one account and kind at the
\* same time, with no lock: once both writes have completed, the file holds
\* the complete output of exactly one of the two, never a mixture or a
\* truncation.
C34_LastWriteWins ==
    (\A p \in 1..2 : last.writers[p].pc = "done")
    => \E p \in 1..2 : disk.cache[WritePath].content = last.writers[p].output

\* C39: while write_cached_output runs, the cache file never holds content
\* under a mode broader than owner-only: it is created or emptied first, its
\* mode is set to 0600 next, and the output is written only by a process
\* whose mode change succeeded; a process whose mode change was refused
\* writes nothing.
C39_ContentOnlyOwnerOnly ==
    /\ disk.cache[WritePath].type = "file" /\ disk.cache[WritePath].content /= <<>>
       => disk.cache[WritePath].mode = "0600"
    /\ (\A p \in 1..2 : last.writers[p].pc \in {"start", "opened", "failed"})
       => disk.cache[WritePath].content
            \in {<<>>} \cup {c \in CacheContents : \A p \in 1..2 : last.writers[p].pc = "start"}

\* the file was created by one process, emptied again by the other; the
\* first was refused the mode change, the second has written its output
C39_Witness ==
    /\ last.writers[1].pc = "failed"
    /\ last.writers[2].pc = "done"
    /\ disk.cache[WritePath].content = last.writers[2].output
    /\ disk.cache[WritePath].mode = "0600"

\* the export lines of an output, whatever their order
LinesIn(output) == {output[i] : i \in DOMAIN output}

\* C35: after a binding was added, removed or pointed elsewhere, the next
\* env injection and the next template rendering with a TTL give what the
\* account's present bindings resolve to, also when a cache entry of the
\* account younger than the TTL exists.
C35_FreshAfterBindingChange ==
    \A cache_ttl \in 0..MaxTtl, env \in HealthyEnvs :
        /\ LinesIn(handle_env_injection(disk, cache_ttl, env).output)
             = LinesIn(handle_env_injection(disk, None, env).output)
        /\ render_templates(disk, cache_ttl, env).resolved
             = render_templates(disk, None, env).resolved

\* C36: after any sequence of template Add and Remove operations no two
\* managed target paths share a backing template file, so that adding one
\* target does not overwrite, and removing one does not delete, the template
\* of another.
C36_TemplatesApart ==
    /\ \A s \in disk.config.templated_files, t \in disk.config.templated_files :
          s.target /= t.target => s.template_name /= t.template_name
    /\ \A path \in TargetArgs, rev \in BOOLEAN :
          \A t \in disk.config.templated_files :
             /\ template_add(disk, path, rev, TRUE).ok
                => template_add(disk, path, rev, TRUE).disk.templates[t.template_name]
                     = disk.templates[t.template_name]
             /\ ( /\ template_remove(disk, path, TRUE, TRUE).ok
                  /\ t.target /= expand_path(disk, path) )
                => template_remove(disk, path, TRUE, TRUE).disk.templates[t.template_name]
                     = disk.templates[t.template_name]

\* C37: the details held, when present, describe the committed item: an
\* item index i is committed and the details' id is the id of
\* vault_items[filtered_item_indices[i]], also after an item Select whose
\* details call failed.
C37_DetailsOfCommittedItem ==
    app.selected_item_details.some /\ ~app.panicked
    => /\ app.selected_vault_item_idx /= None
       /\ InRange(app.filtered_item_indices, app.selected_vault_item_idx)
       /\ InRange(app.vault_items,
                  Get(app.filtered_item_indices, app.selected_vault_item_idx))
       /\ app.selected_item_details.id
            = Get(app.vault_items,
                  Get(app.filtered_item_indices, app.selected_vault_item_idx)).id

\* C38: in every state reached by key events the filtered projection is what
\* update_filtered_items computes from the present items and query; no index
\* in it is past the end of vault_items.
C38_FilteredConsistent ==
    ~app.panicked
    => /\ app.filtered_item_indices = update_filtered_items(app).filtered_item_indices
       /\ \A p \in 1..Len(app.filtered_item_indices) :
             InRange(app.vault_items, app.filtered_item_indices[p])

\* a query is being typed that keeps one item of two
C38_Witness ==
    /\ last.op = "SearchKey"
    /\ app.search_active
    /\ app.search_query /= <<>>
    /\ Len(app.vault_items) = 2
    /\ app.filtered_item_indices = <<0>>

FetchReached(a) ==
    /\ a.vault_item_list_state /= None
    /\ InRange(a.filtered_item_indices, a.vault_item_list_state)
    /\ InRange(a.vault_items, Get(a.filtered_item_indices, a.vault_item_list_state))

\* C40: no sequence of key events from any start crashes the process through
\* load_item_details: whenever the focused filtered item exists, so that an
\* item Select reaches the details call, an account and a vault are committed
\* and in range, and the Select does not panic whatever `op` answers.
C40_DetailsFetchNeverPanics ==
    /\ ~app.panicked
    /\ FetchReached(app)
       => /\ app.selected_account_idx /= None
          /\ InRange(app.accounts, app.selected_account_idx)
          /\ app.selected_vault_idx /= None
          /\ InRange(app.vaults, app.selected_vault_idx)
          /\ \A o_details \in Outcomes :
                ~VaultItemListNav_on_select(app, o_details).panicked

C40_Witness ==
    /\ last.op = "SelectItemKey"
    /\ app.details_for = <<"a1", "v1", "i1">>
    /\ app.focused_panel = "VaultItemDetail"
====
